---- MODULE Spec2Model ----
(***************************************************************************)
(* Model of the session persistence protocol (SessionManager, Postgres     *)
(* implementation) and of the specification synthesis engine (PRDEngine)   *)
(* of flowency-live/builder.                                               *)
(*                                                                         *)
(* The three Postgres tables are the variables sessions, messages and      *)
(* specifications; browser localStorage is the variable localStorage.      *)
(* Every public method is one action that runs the whole method, including *)
(* the nested getSession / saveSessionState / updateLastAccessedTime       *)
(* calls.  Every sql statement of getSession and saveSessionState may      *)
(* fail: the parameter f of an operation is the 1-based index of the       *)
(* statement that rejects (0: none does).                                  *)
(***************************************************************************)
EXTENDS Integers, Sequences, FiniteSets, TLC

(***************************************************************************)
(* Bounds of the model.                                                    *)
(***************************************************************************)
MaxSessions == 2      \* session ids are 1..MaxSessions
MaxMsgId    == 2      \* message ids are 1..MaxMsgId
MaxTime     == 2      \* message timestamps are 1..MaxTime
MaxHistory  == 2      \* longest conversationHistory handed to saveSessionState
MaxRows     == 3      \* rows of the messages table
MaxSnapshots == 3     \* rows of the specifications table
MaxVersion  == 1      \* specification versions are 0..MaxVersion
MaxClock    == 1      \* NOW() ranges over 0..MaxClock
MaxTokens   == 2      \* uuidv4 tokens are 1..MaxTokens
MaxQueue    == 2      \* longest offline queue of one session
MaxResponse == 4      \* longest gateway response, in tokens
MaxErrors == 2        \* rows of the errors table
MaxCalls == 2         \* callers that run at the same time

VARIABLES
    sessions,         \* table sessions: id -> row
    messages,         \* table messages: rows in insertion order
    specifications,   \* table specifications: rows in insertion order
    localStorage,     \* localStorage["offline_messages_<id>"], per session id
    clock,            \* the value of new Date() / NOW()
    tokens,           \* number of uuidv4 tokens minted so far
    issued,           \* history: token -> session id it was stored for (0: none)
    errors,           \* table errors: rows in insertion order
    inflight,         \* calls suspended at an await, per caller
    ret,              \* the last SessionManager call and what it returned
    synth             \* the last PRDEngine.synthesize call and what it returned

vars == <<sessions, messages, specifications, errors, inflight, localStorage,
          clock, tokens, issued, ret, synth>>

SessionIds == 1..MaxSessions   \* the ids createSession hands out
UnknownId  == 0                \* an id no session ever has
MsgIds     == 1..MaxMsgId
Tokens     == 1..MaxTokens
Versions   == 0..MaxVersion
NoToken    == 0       \* magic_link_token IS NULL

(***************************************************************************)
(* Data model (types.ts): Message and Specification.                       *)
(***************************************************************************)
Contents == {"hi"}

Message == [id : MsgIds, role : {"user"}, content : Contents,
            timestamp : 1..MaxTime]

ZeroSummary ==
    [overview |-> "", keyFeatures |-> <<>>, targetUsers |-> "",
     integrations |-> <<>>]

DogSummary ==
    [overview |-> "Dog food shop", keyFeatures |-> <<"checkout">>,
     targetUsers |-> "Dog owners", integrations |-> <<>>]

Summaries == {ZeroSummary, DogSummary}

ZeroPRD ==
    [introduction |-> "", glossary |-> <<>>, requirements |-> <<>>,
     nonFunctionalRequirements |-> <<>>]

ZeroProgress ==
    [topics |-> <<>>, overallCompleteness |-> 0, projectComplexity |-> "Simple"]

\* A Specification value as the Session Manager handles it.
Specification(sid, v, summary, prd, t) ==
    [id |-> sid, version |-> v, plainEnglishSummary |-> summary,
     formalPRD |-> prd, lastUpdated |-> t]

\* A SessionState value.
SessionState(history, spec, progress) ==
    [conversationHistory |-> history, specification |-> spec,
     progress |-> progress]

\* The states a caller hands to saveSessionState: a conversation is a list of
\* messages with distinct ids.
Histories ==
    { h \in UNION { [1..n -> Message] : n \in 0..MaxHistory } :
        \A i, j \in DOMAIN h : h[i].id = h[j].id => i = j }

InputStates(sid, histories, versions, summaries) ==
    { SessionState(h, Specification(sid, v, s, ZeroPRD, 0), ZeroProgress) :
        h \in histories, v \in versions, s \in summaries }

(***************************************************************************)
(* Sequence helpers.                                                       *)
(***************************************************************************)
Range(s) == { s[i] : i \in DOMAIN s }

Count(s, P(_)) == Cardinality({ i \in DOMAIN s : P(s[i]) })

Ids(s) == [ i \in DOMAIN s |-> s[i].id ]

NoDuplicates(s) == \A i, j \in DOMAIN s : s[i] = s[j] => i = j

Max(S) == CHOOSE x \in S : \A y \in S : y <= x

\* The permutations of 1..n.
Perms(n) == { p \in [1..n -> 1..n] : \A i, j \in 1..n : p[i] = p[j] => i = j }

(***************************************************************************)
(* The database, as the record the queries work on.                        *)
(***************************************************************************)
DB == [sessions |-> sessions, messages |-> messages,
       specifications |-> specifications]

\* SELECT ... FROM messages WHERE session_id = sid  (in insertion order)
MessagesOf(db, sid) ==
    SelectSeq(db.messages, LAMBDA r : r.session_id = sid)

\* SELECT ... FROM specifications WHERE session_id = sid
SnapshotsOf(db, sid) ==
    SelectSeq(db.specifications, LAMBDA r : r.session_id = sid)

\* The row of a message, and the Message read back from a row.
MessageRow(sid, m) ==
    [id |-> m.id, session_id |-> sid, role |-> m.role,
     content |-> m.content, timestamp |-> m.timestamp]

RowMessage(r) ==
    [id |-> r.id, role |-> r.role, content |-> r.content,
     timestamp |-> r.timestamp]

\* ORDER BY timestamp ASC: every order of the rows that is ascending in
\* timestamp; rows with equal timestamps come in an order the query does not
\* fix.
OrderByTimestamp(rows) ==
    { [ i \in DOMAIN rows |-> rows[p[i]] ] :
        p \in { q \in Perms(Len(rows)) :
                  \A i, j \in DOMAIN rows :
                     i < j => rows[q[i]].timestamp <= rows[q[j]].timestamp } }

\* A query that takes the snapshot saved last.
LatestSnapshots_LastInserted(db, sid) ==
    LET rows == SnapshotsOf(db, sid)
    IN IF rows = << >> THEN {} ELSE { rows[Len(rows)] }

\* ORDER BY version DESC LIMIT 1: the rows the query may return (none when
\* the session has no snapshot).
LatestSnapshots(db, sid) ==
    LET rows == SnapshotsOf(db, sid)
    IN { rows[i] : i \in { k \in DOMAIN rows :
                             \A j \in DOMAIN rows : rows[j].version <= rows[k].version } }

\* An updateLastAccessedTime that writes nothing.
updateLastAccessedTime_Skips(db, sid, now) == db

\* An updateLastAccessedTime that also marks the session active again.
updateLastAccessedTime_Reactivates(db, sid, now) ==
    IF sid \in DOMAIN db.sessions
    THEN [db EXCEPT !.sessions[sid].last_accessed_at = now,
                    !.sessions[sid].status = "active"]
    ELSE db

\* UPDATE sessions SET last_accessed_at = NOW() WHERE id = sid
updateLastAccessedTime(db, sid, now) ==
    IF sid \in DOMAIN db.sessions
    THEN [db EXCEPT !.sessions[sid].last_accessed_at = now]
    ELSE db

(***************************************************************************)
(* What a call returns.                                                    *)
(***************************************************************************)
StoreError   == "store request failed"
InvalidToken == "Invalid or expired magic link token"
NotFound     == "Session not found"

\* The longest run of sql statements of one call: getSession issues 4,
\* saveSessionState 4 and one per inserted message.
MaxStatements == 8 + MaxRows

FailPoints == 0..MaxStatements

\* The Session object getSession builds from the rows it read.
Session(row, sid, history, spec, progress) ==
    [id |-> sid, createdAt |-> row.created_at,
     lastAccessedAt |-> row.last_accessed_at,
     state |-> SessionState(history, spec, progress),
     magicLinkToken |-> row.magic_link_token]

NoSession ==
    [id |-> 0, createdAt |-> 0, lastAccessedAt |-> 0,
     state |-> SessionState(<<>>, Specification(0, 0, ZeroSummary, ZeroPRD, 0),
                            ZeroProgress),
     magicLinkToken |-> NoToken]

Outcome(status, error, session, db, n) ==
    [status |-> status, error |-> error, session |-> session, db |-> db,
     statements |-> n]

\* The record of a call: the method, its arguments (session id, token or
\* specification version), whether a sql statement of it rejected, how it
\* ended and the Session it returned.  For saveSessionState, again says that
\* the call before it was a successful saveSessionState of the same session
\* with the same specification version, and conflict says that the state
\* carried a message whose id was already stored for the session with
\* another role, content or timestamp.
Ret(op, sid, token, f, o) ==
    [op |-> op, sid |-> sid, token |-> token, version |-> -1, again |-> FALSE,
     conflict |-> FALSE,
     failed |-> f # 0, status |-> o.status, error |-> o.error,
     session |-> o.session]

(***************************************************************************)
(* SessionManager.getSession: the outcomes of one call.                    *)
(***************************************************************************)
\* The specification and progress getSession builds: from a snapshot row, or
\* the in-memory default when the session has none.
SpecificationOfRow(sid, r) ==
    Specification(sid, r.version, r.plain_english_summary, r.formal_prd,
                  r.updated_at)

\* A default that borrows the -1 of saveSessionState's currentVersion.
DefaultSpecification_MinusOne(sid, row) ==
    Specification(sid, -1, ZeroSummary, ZeroPRD, row.created_at)

\* "No specification yet, use default"
DefaultSpecification(sid, row) ==
    Specification(sid, 0, ZeroSummary, ZeroPRD, row.created_at)

\* A getSession that treats a missing row as an error.
NotFoundOutcome_Throws(db) == Outcome("throw", NotFound, NoSession, db, 1)

\* "if (sessionResult.rows.length === 0) return null"
NotFoundOutcome(db) == Outcome("null", "", NoSession, db, 1)

getSession(db, sid, now, f) ==
    IF f = 1 THEN { Outcome("throw", StoreError, NoSession, db, 1) }
    ELSE IF sid \notin DOMAIN db.sessions
    THEN { NotFoundOutcome(db) }
    ELSE IF f \in 2..4
    THEN { Outcome("throw", StoreError, NoSession, db, f) }
    ELSE
      LET row  == db.sessions[sid]
          hists == { [ i \in DOMAIN rows |-> RowMessage(rows[i]) ] :
                       rows \in OrderByTimestamp(MessagesOf(db, sid)) }
          specs == IF LatestSnapshots(db, sid) = {}
                   THEN { <<DefaultSpecification(sid, row), ZeroProgress>> }
                   ELSE { <<SpecificationOfRow(sid, r), r.progress_state>> :
                            r \in LatestSnapshots(db, sid) }
      IN { Outcome("ok", "",
                   Session(row, sid, h, sp[1], sp[2]),
                   updateLastAccessedTime(db, sid, now), 4) :
             h \in hists, sp \in specs }

(***************************************************************************)
(* SessionManager.saveSessionState: the outcome of one call.               *)
(***************************************************************************)
SnapshotRow(sid, state, now) ==
    [session_id |-> sid, version |-> state.specification.version,
     plain_english_summary |-> state.specification.plainEnglishSummary,
     formal_prd |-> state.specification.formalPRD,
     progress_state |-> state.progress,
     created_at |-> now, updated_at |-> now]

\* A save without the filter: the whole history is written again.
NewMessages_Unfiltered(db, sid, state) == state.conversationHistory

\* A filter that compares whole messages, not ids.
NewMessages_ByValue(db, sid, state) ==
    LET existing == { RowMessage(r) : r \in Range(MessagesOf(db, sid)) }
    IN SelectSeq(state.conversationHistory, LAMBDA msg : msg \notin existing)

\* existingMessageIds and the filter that keeps the messages not yet stored
NewMessages(db, sid, state) ==
    LET existingMessageIds == { r.id : r \in Range(MessagesOf(db, sid)) }
    IN SelectSeq(state.conversationHistory,
                 LAMBDA msg : msg.id \notin existingMessageIds)

\* currentVersion: the latest stored version, -1 when there is no snapshot
CurrentVersion(db, sid) ==
    IF LatestSnapshots(db, sid) = {} THEN -1
    ELSE Max({ r.version : r \in LatestSnapshots(db, sid) })

\* A saveSessionState that writes a snapshot on every call.
VersionChanged_Always(db, sid, state) == TRUE

\* A saveSessionState whose version test is inverted.
VersionChanged_Same(db, sid, state) ==
    state.specification.version = CurrentVersion(db, sid)

\* "Save specification if version changed"
VersionChanged(db, sid, state) ==
    state.specification.version # CurrentVersion(db, sid)

saveSessionState(db, sid, state, now, f) ==
    IF f = 1 THEN Outcome("throw", StoreError, NoSession, db, 1)
    ELSE
      LET newMessages == NewMessages(db, sid, state)
          k      == Len(newMessages)
          done   == IF f \in 2..(k + 1) THEN f - 2 ELSE k
          db1    == [db EXCEPT !.messages =
                       @ \o [ i \in 1..done |-> MessageRow(sid, newMessages[i]) ]]
          insert == VersionChanged(db1, sid, state)
          db2    == IF insert
                    THEN [db1 EXCEPT !.specifications =
                            Append(@, SnapshotRow(sid, state, now))]
                    ELSE db1
          last   == IF insert THEN k + 4 ELSE k + 3
      IN IF f \in 2..(k + 1) THEN Outcome("throw", StoreError, NoSession, db1, f)
         ELSE IF f = k + 2   THEN Outcome("throw", StoreError, NoSession, db1, f)
         ELSE IF insert /\ f = k + 3
                             THEN Outcome("throw", StoreError, NoSession, db1, f)
         ELSE IF f = last    THEN Outcome("throw", StoreError, NoSession, db2, f)
         ELSE Outcome("ok", "", NoSession,
                      updateLastAccessedTime(db2, sid, now), last)

(***************************************************************************)
(* PRDEngine.synthesize.  The gateway's answer is text; the model keeps it *)
(* as a sequence of lexical pieces: a code fence, the tag json, white      *)
(* space, other text (prose, another language tag, broken JSON), or one    *)
(* complete JSON document.                                                 *)
(***************************************************************************)
Fence   == "fence"   \* three backticks
JsonTag == "json"
Space   == " "
Text    == "text"

\* The JSON documents a response may hold, and the value JSON.parse gives
\* for each: null, or an object with or without the keys spec and
\* missingSections.
Documents == {"{spec,missingSections:[flows]}", "{spec,missingSections:[]}",
              "{spec}", "{missingSections:[flows]}", "null"}

ModelSpec == [plainEnglishSummary |-> DogSummary, formalPRD |-> ZeroPRD]

JSONValue(doc) ==
    [isNull     |-> doc = "null",
     hasSpec    |-> doc \in {"{spec,missingSections:[flows]}",
                             "{spec,missingSections:[]}", "{spec}"},
     hasMissing |-> doc \in {"{spec,missingSections:[flows]}",
                             "{spec,missingSections:[]}",
                             "{missingSections:[flows]}"},
     missingSections |->
         IF doc \in {"{spec,missingSections:[flows]}", "{missingSections:[flows]}"}
         THEN <<"flows">> ELSE << >>]

Pieces == {Fence, JsonTag, Space, Text} \cup Documents

Responses == UNION { [1..n -> Pieces] : n \in 0..MaxResponse }

\* String.prototype.trim
RECURSIVE TrimStart(_)
TrimStart(s) == IF s # << >> /\ Head(s) = Space THEN TrimStart(Tail(s)) ELSE s

RECURSIVE TrimEnd(_)
TrimEnd(s) ==
    IF s # << >> /\ s[Len(s)] = Space THEN TrimEnd(SubSeq(s, 1, Len(s) - 1)) ELSE s

Trim(s) == TrimEnd(TrimStart(s))

\* jsonContent.startsWith(fence)
StartsWithFence(s) == s # << >> /\ Head(s) = Fence

\* An opening-fence pattern without the optional tag.
StripOpeningFence_KeepsTag(s) == TrimStart(Tail(s))

\* .replace(/^fence(?:json)?\s*/, '')
StripOpeningFence(s) ==
    LET afterFence == Tail(s)
        afterTag   == IF afterFence # << >> /\ Head(afterFence) = JsonTag
                      THEN Tail(afterFence) ELSE afterFence
    IN TrimStart(afterTag)

\* .replace(/fence\s*$/, '')
StripClosingFence(s) ==
    LET t == TrimEnd(s)
    IN IF t # << >> /\ t[Len(t)] = Fence THEN SubSeq(t, 1, Len(t) - 1) ELSE s

\* The text handed to JSON.parse.
JsonContent(content) ==
    LET trimmed == Trim(content)
    IN IF StartsWithFence(trimmed)
       THEN StripClosingFence(StripOpeningFence(trimmed))
       ELSE trimmed

\* JSON.parse: the text is one JSON document, white space around it allowed;
\* anything else is a SyntaxError.
Parses(text) == Len(Trim(text)) = 1 /\ Trim(text)[1] \in Documents

JSONParse(text) == JSONValue(Trim(text)[1])

\* What synthesize returns: its spec is the input specification, the object
\* under the key spec of the response, or undefined.
SpecValue(kind, value) == [kind |-> kind, value |-> value]

Undefined == SpecValue("undefined", << >>)

DefaultMissingSections == <<"overview", "targetUsers", "keyFeatures", "flows">>

\* A catch block that gives up the specification.
Fallback_DropsSpec(input) ==
    [status |-> "ok", spec |-> Undefined,
     missingSections |-> DefaultMissingSections]

\* The catch block: the current spec unchanged, the fixed list.
Fallback(input) ==
    [status |-> "ok", spec |-> SpecValue("current", input.currentSpec),
     missingSections |-> DefaultMissingSections]

\* A synthesize whose call of the gateway sits before the try.
synthesize_Propagates(input, gateway, content) ==
    IF gateway = "rejects"
    THEN [status |-> "throw", spec |-> Undefined, missingSections |-> << >>]
    ELSE IF ~Parses(JsonContent(content)) THEN Fallback(input)
    ELSE LET result == JSONParse(JsonContent(content))
         IN IF result.isNull THEN Fallback(input)
            ELSE [status |-> "ok",
                  spec |-> IF result.hasSpec THEN SpecValue("model", ModelSpec)
                           ELSE Undefined,
                  missingSections |-> IF result.hasMissing
                                      THEN result.missingSections ELSE << >>]

\* gateway is "rejects" when llmRouter.complete rejects, "answers" when it
\* resolves with content.
synthesize(input, gateway, content) ==
    IF gateway = "rejects" THEN Fallback(input)
    ELSE IF ~Parses(JsonContent(content)) THEN Fallback(input)
    ELSE LET result == JSONParse(JsonContent(content))
         IN IF result.isNull THEN Fallback(input)   \* result.missingSections throws
            ELSE [status |-> "ok",
                  spec |-> IF result.hasSpec THEN SpecValue("model", ModelSpec)
                           ELSE Undefined,
                  missingSections |-> IF result.hasMissing
                                      THEN result.missingSections ELSE << >>]

\* The inputs of synthesize: the mode and the current specification (the
\* messages and isFirstRun of update mode go into the prompt only).
SynthInputs ==
    [mode : {"update", "finalize"},
     currentSpec : { Specification(1, v, s, ZeroPRD, 0) :
                       v \in Versions, s \in Summaries }]

(***************************************************************************)
(* Calls in flight.  A call that awaits the store lets other callers run;  *)
(* inflight keeps, per caller, where the call stands and its local values. *)
(***************************************************************************)
Callers == 1..MaxCalls

NoCall ==
    [op |-> "none", pc |-> "none", sid |-> UnknownId, offlineMessages |-> << >>,
     state |-> SessionState(<< >>, Specification(0, 0, ZeroSummary, ZeroPRD, 0),
                            ZeroProgress),
     newMessages |-> << >>, currentVersion |-> -1]

(***************************************************************************)
(* The state after construction: empty tables, empty localStorage.         *)
(***************************************************************************)
NoOutput == [status |-> "none", spec |-> Undefined, missingSections |-> << >>]

NoSynth ==
    [pc |-> "idle",
     input |-> [mode |-> "none", currentSpec |-> Specification(0, 0, ZeroSummary, ZeroPRD, 0)],
     gateway |-> "none", content |-> << >>, output |-> NoOutput]

Init ==
    /\ sessions = << >>
    /\ messages = << >>
    /\ specifications = << >>
    /\ errors = << >>
    /\ inflight = [ p \in Callers |-> NoCall ]
    /\ localStorage = [ s \in SessionIds \cup {UnknownId} |-> << >> ]
    /\ clock = 0
    /\ tokens = 0
    /\ issued = [ t \in Tokens |-> 0 ]
    /\ ret = Ret("init", 0, NoToken, 0, Outcome("ok", "", NoSession, 0, 0))
    /\ synth = NoSynth

\* The tables stay within the bounds of the model.
Fits(db) ==
    /\ Len(db.messages) <= MaxRows
    /\ Len(db.specifications) <= MaxSnapshots

Store(db) ==
    /\ Fits(db)
    /\ sessions' = db.sessions
    /\ messages' = db.messages
    /\ specifications' = db.specifications

\* Time passes.
Tick ==
    /\ clock < MaxClock
    /\ clock' = clock + 1
    /\ UNCHANGED <<errors, inflight, sessions, messages, specifications, localStorage, tokens,
                   issued, ret, synth>>

(***************************************************************************)
(* SessionManager.createSession                                            *)
(***************************************************************************)
SessionRow(now) ==
    [created_at |-> now, last_accessed_at |-> now,
     magic_link_token |-> NoToken, status |-> "active"]

\* A createSession that seeds version 1.
InitialSpecification_VersionOne(sessionId, now) ==
    Specification(sessionId, 1, ZeroSummary, ZeroPRD, now)

\* "Create initial specification"
InitialSpecification(sessionId, now) ==
    Specification(sessionId, 0, ZeroSummary, ZeroPRD, now)

createSession(f) ==
    /\ Cardinality(DOMAIN sessions) < MaxSessions
    /\ LET sessionId == Cardinality(DOMAIN sessions) + 1
           now  == clock
           row  == SessionRow(now)
           specification == InitialSpecification(sessionId, now)
           state == SessionState(<<>>, specification, ZeroProgress)
           db1  == [DB EXCEPT !.sessions =
                      [ s \in DOMAIN sessions \cup {sessionId} |->
                          IF s = sessionId THEN row ELSE sessions[s] ]]
           db2  == [db1 EXCEPT !.specifications =
                      Append(@, SnapshotRow(sessionId, state, now))]
       IN IF f = 1
          THEN /\ Store(DB)
               /\ ret' = Ret("createSession", 0, NoToken, f,
                             Outcome("throw", StoreError, NoSession, DB, 1))
          ELSE IF f = 2
          THEN /\ Store(db1)
               /\ ret' = Ret("createSession", sessionId, NoToken, f,
                             Outcome("throw", StoreError, NoSession, db1, 2))
          ELSE /\ Store(db2)
               /\ ret' = Ret("createSession", sessionId, NoToken, f,
                             Outcome("ok", "",
                                     Session(row, sessionId, <<>>, specification,
                                             ZeroProgress), db2, 2))
    /\ UNCHANGED <<errors, inflight, localStorage, clock, tokens, issued, synth>>

(***************************************************************************)
(* The actions for getSession and saveSessionState.                        *)
(***************************************************************************)
\* f names a statement the call reaches: the run ends at the statement that
\* rejects.
Fails(f, o) == f = 0 \/ o.statements = f

GetSession(sid, f) ==
    /\ \E o \in getSession(DB, sid, clock, f) :
          /\ Fails(f, o)
          /\ Store(o.db)
          /\ ret' = Ret("getSession", sid, NoToken, f, o)
    /\ UNCHANGED <<errors, inflight, localStorage, clock, tokens, issued, synth>>

SaveSessionState(sid, state, f) ==
    /\ LET o == saveSessionState(DB, sid, state, clock, f)
       IN /\ Fails(f, o)
          /\ Store(o.db)
          /\ ret' = [Ret("saveSessionState", sid, NoToken, f, o) EXCEPT
                       !.version = state.specification.version,
                       !.conflict =
                           \E m \in Range(state.conversationHistory) :
                             \E r \in Range(MessagesOf(DB, sid)) :
                               r.id = m.id /\ RowMessage(r) # m,
                       !.again = /\ ret.op = "saveSessionState"
                                 /\ ret.status = "ok"
                                 /\ ret.sid = sid
                                 /\ ret.version = state.specification.version]
    /\ UNCHANGED <<errors, inflight, localStorage, clock, tokens, issued, synth>>

(***************************************************************************)
(* Magic links: generateMagicLink, restoreSessionFromMagicLink.            *)
(***************************************************************************)
\* A generateMagicLink that keeps a token the session already has.
SetToken_KeepsFirst(db, sid, token) ==
    IF sid \in DOMAIN db.sessions
       /\ db.sessions[sid].magic_link_token = NoToken
    THEN [db EXCEPT !.sessions[sid].magic_link_token = token]
    ELSE db

\* A generateMagicLink that writes only to active sessions.
SetToken_ActiveOnly(db, sid, token) ==
    IF sid \in DOMAIN db.sessions /\ db.sessions[sid].status = "active"
    THEN [db EXCEPT !.sessions[sid].magic_link_token = token]
    ELSE db

\* A generateMagicLink that does not store the token.
SetToken_Forgets(db, sid, token) == db

\* An UPDATE without its WHERE clause.
SetToken_Everywhere(db, sid, token) ==
    [db EXCEPT !.sessions =
        [ s \in DOMAIN db.sessions |->
            [db.sessions[s] EXCEPT !.magic_link_token = token] ]]

\* UPDATE sessions SET magic_link_token = token WHERE id = sid
SetToken(db, sid, token) ==
    IF sid \in DOMAIN db.sessions
    THEN [db EXCEPT !.sessions[sid].magic_link_token = token]
    ELSE db

generateMagicLink(sid, f) ==
    /\ tokens < MaxTokens
    /\ LET token == tokens + 1      \* uuidv4(): a token never minted before
           db1   == IF f = 1 THEN DB ELSE SetToken(DB, sid, token)
           o     == IF f = 1
                    THEN Outcome("throw", StoreError, NoSession, db1, 1)
                    ELSE Outcome("ok", "", NoSession, db1, 1)
       IN /\ Store(db1)
          /\ tokens' = token
          /\ issued' = [issued EXCEPT ![token] =
                          IF f = 0 /\ sid \in DOMAIN sessions THEN sid ELSE 0]
          /\ ret' = Ret("generateMagicLink", sid,
                       IF f = 1 THEN NoToken ELSE token, f, o)
    /\ UNCHANGED <<errors, inflight, localStorage, clock, synth>>

\* A lookup that ignores the token.
SessionsWithToken_Any(db, token) == DOMAIN db.sessions

\* SELECT id FROM sessions WHERE magic_link_token = token LIMIT 1
SessionsWithToken(db, token) ==
    { s \in DOMAIN db.sessions : db.sessions[s].magic_link_token = token }

\* A restoreSessionFromMagicLink that redeems the token: a one-time link.
restoreSessionFromMagicLink_OneTime(db, token, now, f) ==
    IF f = 1 THEN { Outcome("throw", StoreError, NoSession, db, 1) }
    ELSE IF SessionsWithToken(db, token) = {}
    THEN { Outcome("throw", InvalidToken, NoSession, db, 1) }
    ELSE { [o EXCEPT !.statements = @ + 1,
                     !.db = IF o.status = "ok"
                            THEN SetToken(o.db, o.session.id, NoToken)
                            ELSE o.db] :
             o \in UNION { getSession(db, sessionId, now, IF f = 0 THEN 0 ELSE f - 1) :
                             sessionId \in SessionsWithToken(db, token) } }

restoreSessionFromMagicLink(db, token, now, f) ==
    IF f = 1 THEN { Outcome("throw", StoreError, NoSession, db, 1) }
    ELSE IF SessionsWithToken(db, token) = {}
    THEN { Outcome("throw", InvalidToken, NoSession, db, 1) }
    ELSE { IF o.status = "null"
           THEN Outcome("throw", NotFound, NoSession, o.db, o.statements + 1)
           ELSE [o EXCEPT !.statements = @ + 1] :
             o \in UNION { getSession(db, sessionId, now, IF f = 0 THEN 0 ELSE f - 1) :
                             sessionId \in SessionsWithToken(db, token) } }

RestoreSessionFromMagicLink(token, f) ==
    /\ \E o \in restoreSessionFromMagicLink(DB, token, clock, f) :
          /\ Fails(f, o)
          /\ Store(o.db)
          /\ ret' = [Ret("restoreSessionFromMagicLink", o.session.id, token, f, o)
                       EXCEPT !.again = /\ ret.op = "restoreSessionFromMagicLink"
                                        /\ ret.status = "ok"
                                        /\ ret.token = token]
    /\ UNCHANGED <<errors, inflight, localStorage, clock, tokens, issued, synth>>

(***************************************************************************)
(* SessionManager.abandonSession                                           *)
(***************************************************************************)
abandonSession(sid, f) ==
    /\ LET db1 == IF f = 0 /\ sid \in DOMAIN sessions
                  THEN [DB EXCEPT !.sessions[sid].status = "abandoned"]
                  ELSE DB
           o   == IF f = 1
                  THEN Outcome("throw", StoreError, NoSession, db1, 1)
                  ELSE Outcome("ok", "", NoSession, db1, 1)
       IN /\ Store(db1)
          /\ ret' = Ret("abandonSession", sid, NoToken, f, o)
    /\ UNCHANGED <<errors, inflight, localStorage, clock, tokens, issued, synth>>

(***************************************************************************)
(* The offline queue in localStorage (window is defined: the static        *)
(* methods run in the browser) and syncOfflineMessages.                    *)
(***************************************************************************)
\* JSON.stringify(existing): a Date is written as its ISO string.
ISOString(t) == [iso |-> t]

Stringify(msgs) ==
    [ i \in DOMAIN msgs |-> [msgs[i] EXCEPT !.timestamp = ISOString(@)] ]

\* JSON.parse(stored), then timestamp: new Date(msg.timestamp)
ParseStored(stored) ==
    [ i \in DOMAIN stored |-> [stored[i] EXCEPT !.timestamp = @.iso] ]

\* The messages under the key of sid in a localStorage; a missing key gives
\* the empty list.
OfflineMessages(store, sid) == ParseStored(store[sid])

getOfflineMessages(sid) == OfflineMessages(localStorage, sid)

\* The number of messages queued in localStorage, over all keys.
RECURSIVE QueuedUpTo(_)
QueuedUpTo(k) ==
    IF k < UnknownId THEN 0 ELSE Len(localStorage[k]) + QueuedUpTo(k - 1)

Queued == QueuedUpTo(MaxSessions)

queueOfflineMessage(sid, message) ==
    /\ Len(getOfflineMessages(sid)) < MaxQueue
    /\ Queued + Len(messages) < MaxRows
    /\ localStorage' = [localStorage EXCEPT
                          ![sid] = Stringify(Append(getOfflineMessages(sid),
                                                    message))]
    /\ ret' = Ret("queueOfflineMessage", sid, NoToken, 0,
                  Outcome("ok", "", NoSession, DB, 0))
    /\ UNCHANGED <<errors, inflight, sessions, messages, specifications, clock, tokens, issued,
                   synth>>

\* A clear that empties localStorage.
clearOfflineMessages_All(store, sid) == [ s \in DOMAIN store |-> << >> ]

\* localStorage.removeItem(key)
clearOfflineMessages(store, sid) == [store EXCEPT ![sid] = << >>]

ClearOfflineMessages(sid) ==
    /\ localStorage' = clearOfflineMessages(localStorage, sid)
    /\ ret' = Ret("clearOfflineMessages", sid, NoToken, 0,
                  Outcome("ok", "", NoSession, DB, 0))
    /\ UNCHANGED <<errors, inflight, sessions, messages, specifications, clock, tokens, issued,
                   synth>>

\* The try block of syncOfflineMessages up to the save: getSession, then
\* saveSessionState of the history with the queued messages appended.
SyncPersist(db, sid, offlineMessages, now, f) ==
    { IF g.status = "throw" THEN g
      ELSE IF g.status = "null"
      THEN Outcome("throw", NotFound, NoSession, g.db, g.statements)
      ELSE LET updatedState ==
                 [g.session.state EXCEPT
                    !.conversationHistory = @ \o offlineMessages]
               s == saveSessionState(g.db, sid, updatedState, now,
                                     IF f > 4 THEN f - 4 ELSE 0)
           IN [s EXCEPT !.statements = @ + 4] :
      g \in getSession(db, sid, now, f) }

\* A syncOfflineMessages without the early return on an empty queue.
syncOfflineMessages_NoEarlyReturn(db, store, sid, now, f) ==
    { IF o.status = "ok"
      THEN o @@ [queue |-> clearOfflineMessages(store, sid)]
      ELSE o @@ [queue |-> store] :
        o \in SyncPersist(db, sid, OfflineMessages(store, sid), now, f) }

\* A syncOfflineMessages that clears the queue whether or not the persist
\* succeeded.
syncOfflineMessages_ClearsAlways(db, store, sid, now, f) ==
    IF Len(OfflineMessages(store, sid)) = 0
    THEN { Outcome("ok", "", NoSession, db, 0) @@ [queue |-> store] }
    ELSE { o @@ [queue |-> clearOfflineMessages(store, sid)] :
             o \in SyncPersist(db, sid, OfflineMessages(store, sid), now, f) }

\* The outcomes of syncOfflineMessages; queue is the local queue it leaves:
\* cleared after a successful persist, untouched when the persist threw.
syncOfflineMessages(db, store, sid, now, f) ==
    IF Len(OfflineMessages(store, sid)) = 0
    THEN { Outcome("ok", "", NoSession, db, 0) @@ [queue |-> store] }
    ELSE { IF o.status = "ok"
           THEN o @@ [queue |-> clearOfflineMessages(store, sid)]
           ELSE o @@ [queue |-> store] :
             o \in SyncPersist(db, sid, OfflineMessages(store, sid), now, f) }

SyncOfflineMessages(sid, f) ==
    /\ \E o \in syncOfflineMessages(DB, localStorage, sid, clock, f) :
          /\ Fails(f, o)
          /\ Store(o.db)
          /\ localStorage' = o.queue
          /\ ret' = Ret("syncOfflineMessages", sid, NoToken, f, o)
    /\ UNCHANGED <<errors, inflight, clock, tokens, issued, synth>>

(***************************************************************************)
(* saveSessionState statement by statement: every sql statement is an      *)
(* await, and another caller may run between two of them.                  *)
(***************************************************************************)
\* SELECT id FROM messages; the filter gives the messages to insert.
SaveBegin(p, sid, state) ==
    /\ inflight[p].op = "none"
    /\ inflight' = [inflight EXCEPT ![p] =
                      [NoCall EXCEPT !.op = "saveSessionState",
                                     !.pc = "insertMessages",
                                     !.sid = sid,
                                     !.state = state,
                                     !.newMessages = NewMessages(DB, sid, state)]]
    /\ UNCHANGED <<errors, sessions, messages, specifications, localStorage,
                   clock, tokens, issued, ret, synth>>

\* One turn of the loop: INSERT INTO messages.
SaveInsertMessage(p) ==
    /\ inflight[p].op = "saveSessionState"
    /\ inflight[p].pc = "insertMessages"
    /\ inflight[p].newMessages # << >>
    /\ Store([DB EXCEPT !.messages =
                 Append(@, MessageRow(inflight[p].sid, Head(inflight[p].newMessages)))])
    /\ inflight' = [inflight EXCEPT ![p].newMessages = Tail(@)]
    /\ UNCHANGED <<errors, localStorage, clock, tokens, issued, ret, synth>>

\* SELECT version ... ORDER BY version DESC LIMIT 1
SaveReadVersion(p) ==
    /\ inflight[p].op = "saveSessionState"
    /\ inflight[p].pc = "insertMessages"
    /\ inflight[p].newMessages = << >>
    /\ inflight' = [inflight EXCEPT
                      ![p].pc = "insertSnapshot",
                      ![p].currentVersion = CurrentVersion(DB, inflight[p].sid)]
    /\ UNCHANGED <<errors, sessions, messages, specifications, localStorage,
                   clock, tokens, issued, ret, synth>>

\* An insert that looks at the stored latest version again as it writes.
InsertSnapshot_Conditional(db, sid, state, currentVersion, now) ==
    IF state.specification.version # CurrentVersion(db, sid)
    THEN [db EXCEPT !.specifications = Append(@, SnapshotRow(sid, state, now))]
    ELSE db

\* if (state.specification.version !== currentVersion) INSERT INTO
\* specifications: currentVersion is the value read one statement earlier.
InsertSnapshot(db, sid, state, currentVersion, now) ==
    IF state.specification.version # currentVersion
    THEN [db EXCEPT !.specifications = Append(@, SnapshotRow(sid, state, now))]
    ELSE db

SaveInsertSnapshot(p) ==
    /\ inflight[p].op = "saveSessionState"
    /\ inflight[p].pc = "insertSnapshot"
    /\ Store(InsertSnapshot(DB, inflight[p].sid, inflight[p].state,
                            inflight[p].currentVersion, clock))
    /\ inflight' = [inflight EXCEPT ![p].pc = "updateLastAccessedTime"]
    /\ UNCHANGED <<errors, localStorage, clock, tokens, issued, ret, synth>>

SaveFinish(p) ==
    /\ inflight[p].op = "saveSessionState"
    /\ inflight[p].pc = "updateLastAccessedTime"
    /\ LET db1 == updateLastAccessedTime(DB, inflight[p].sid, clock)
       IN /\ Store(db1)
          /\ ret' = [Ret("saveSessionState", inflight[p].sid, NoToken, 0,
                         Outcome("ok", "", NoSession, db1, 0)) EXCEPT
                       !.version = inflight[p].state.specification.version]
    /\ inflight' = [inflight EXCEPT ![p] = NoCall]
    /\ UNCHANGED <<errors, localStorage, clock, tokens, issued, synth>>

(***************************************************************************)
(* syncOfflineMessages in two steps: up to its first await (the queue has  *)
(* been read), and from there to its end (getSession, saveSessionState,    *)
(* then clearOfflineMessages with no await in between).                    *)
(***************************************************************************)
SyncRead(p, sid) ==
    /\ inflight[p].op = "none"
    /\ LET offlineMessages == getOfflineMessages(sid)
       IN IF Len(offlineMessages) = 0
          THEN /\ ret' = Ret("syncOfflineMessages", sid, NoToken, 0,
                             Outcome("ok", "", NoSession, DB, 0))
               /\ UNCHANGED inflight
          ELSE /\ inflight' = [inflight EXCEPT ![p] =
                                 [NoCall EXCEPT !.op = "syncOfflineMessages",
                                                !.pc = "getSession",
                                                !.sid = sid,
                                                !.offlineMessages = offlineMessages]]
               /\ UNCHANGED ret
    /\ UNCHANGED <<errors, sessions, messages, specifications, localStorage,
                   clock, tokens, issued, synth>>

SyncResume(p, f) ==
    /\ inflight[p].op = "syncOfflineMessages"
    /\ LET sid == inflight[p].sid
       IN \E o \in SyncPersist(DB, sid, inflight[p].offlineMessages, clock, f) :
            /\ Fails(f, o)
            /\ Store(o.db)
            /\ localStorage' = IF o.status = "ok"
                               THEN clearOfflineMessages(localStorage, sid)
                               ELSE localStorage
            /\ ret' = Ret("syncOfflineMessages", sid, NoToken, f, o)
    /\ inflight' = [inflight EXCEPT ![p] = NoCall]
    /\ UNCHANGED <<errors, clock, tokens, issued, synth>>

(***************************************************************************)
(* The actions for synthesize: the call up to its await of the gateway,    *)
(* and the rest of the call once the gateway has answered or rejected.     *)
(***************************************************************************)
Synthesize(input) ==
    /\ synth.pc # "awaiting"
    /\ synth' = [pc |-> "awaiting", input |-> input, gateway |-> "none",
                 content |-> << >>, output |-> NoOutput]
    /\ UNCHANGED <<errors, inflight, sessions, messages, specifications, localStorage, clock,
                   tokens, issued, ret>>

SynthesizeResume(gateway, content) ==
    /\ synth.pc = "awaiting"
    /\ synth' = [synth EXCEPT !.pc = "done", !.gateway = gateway,
                              !.content = content,
                              !.output = synthesize(synth.input, gateway, content)]
    /\ UNCHANGED <<errors, inflight, sessions, messages, specifications, localStorage, clock,
                   tokens, issued, ret>>

NextSynth ==
    \/ \E input \in SynthInputs : Synthesize(input)
    \/ SynthesizeResume("rejects", << >>)
    \/ \E content \in Responses : SynthesizeResume("answers", content)

SpecSynth == Init /\ [][NextSynth]_vars

(***************************************************************************)
(* The callers: which session ids, states and failures they use.           *)
(***************************************************************************)
\* A caller addresses a session that exists, or an id that does not.
CallIds == DOMAIN sessions \cup {UnknownId}

\* States that differ in the conversation only.
MessageStates(sid) == InputStates(sid, Histories, {0}, {ZeroSummary})

\* States that differ in the specification only.
SnapshotStates(sid) == InputStates(sid, {<< >>}, Versions, Summaries)

NextMessages ==
    \/ createSession(0)
    \/ \E sid \in CallIds : GetSession(sid, 0)
    \/ \E sid \in DOMAIN sessions :
         \E state \in MessageStates(sid) : SaveSessionState(sid, state, 0)

SpecMessages == Init /\ [][NextMessages]_vars

NextOffline ==
    \/ createSession(0)
    \/ \E sid \in CallIds, message \in Message : queueOfflineMessage(sid, message)
    \/ \E sid \in CallIds, f \in FailPoints : SyncOfflineMessages(sid, f)

SpecOffline == Init /\ [][NextOffline]_vars

\* The state of a session after its first turn: two messages with the same
\* timestamp, version 1.
LinkStates(sid) ==
    InputStates(sid, { h \in Histories : Len(h) = 2 /\ Ids(h) = <<1, 2>>
                                            /\ h[1].timestamp = 1 /\ h[2].timestamp = 1 },
                {1}, {DogSummary})

NextLink ==
    \/ Tick
    \/ createSession(0)
    \/ \E sid \in CallIds : GetSession(sid, 0)
    \/ \E sid \in DOMAIN sessions :
         \E state \in LinkStates(sid) : SaveSessionState(sid, state, 0)
    \/ \E sid \in CallIds, f \in 0..1 : generateMagicLink(sid, f)
    \/ \E token \in Tokens, f \in 0..5 : RestoreSessionFromMagicLink(token, f)
    \/ \E sid \in CallIds, f \in 0..1 : abandonSession(sid, f)

SpecLink == Init /\ [][NextLink]_vars

NextSnapshots ==
    \/ createSession(0)
    \/ \E sid \in CallIds : GetSession(sid, 0)
    \/ \E sid \in CallIds :
         \E state \in SnapshotStates(sid) : SaveSessionState(sid, state, 0)

SpecSnapshots == Init /\ [][NextSnapshots]_vars

(***************************************************************************)
(* One conversational turn, as the specification describes its data flow:  *)
(* the caller reads the session, has the engine synthesize from the        *)
(* session's current specification, and persists the result through the    *)
(* Session Manager.  A materially different specification carries the next *)
(* version; one session is served by one turn at a time.                   *)
(***************************************************************************)
TurnResponses == { <<"{spec,missingSections:[flows]}">>, <<"{spec}">>, <<Text>> }

MateriallyDifferent(currentSpec, spec) ==
    \/ spec.plainEnglishSummary # currentSpec.plainEnglishSummary
    \/ spec.formalPRD # currentSpec.formalPRD

\* The specification the turn persists.
TurnSpecification(currentSpec, output, now) ==
    IF output.spec.kind = "model"
       /\ MateriallyDifferent(currentSpec, output.spec.value)
    THEN Specification(currentSpec.id, currentSpec.version + 1,
                       output.spec.value.plainEnglishSummary,
                       output.spec.value.formalPRD, now)
    ELSE currentSpec

\* The turn up to the engine's await of the gateway.
Turn(sid) ==
    /\ synth.pc = "idle"
    /\ \E o \in getSession(DB, sid, clock, 0) :
          /\ o.status = "ok"
          /\ Store(o.db)
          /\ ret' = Ret("getSession", sid, NoToken, 0, o)
          /\ synth' = [pc |-> "awaiting",
                       input |-> [mode |-> "update",
                                  currentSpec |-> o.session.state.specification],
                       gateway |-> "none", content |-> << >>,
                       output |-> NoOutput]
    /\ UNCHANGED <<errors, inflight, localStorage, clock, tokens, issued>>

\* The end of the turn: the result goes to saveSessionState.
TurnSave ==
    /\ synth.pc = "done"
    /\ synth.output.spec.kind # "undefined"
    /\ ret.op = "getSession"
    /\ LET sid   == ret.sid
           spec  == TurnSpecification(synth.input.currentSpec, synth.output, clock)
           state == [ret.session.state EXCEPT !.specification = spec]
           o     == saveSessionState(DB, sid, state, clock, 0)
       IN /\ Store(o.db)
          /\ ret' = [Ret("saveSessionState", sid, NoToken, 0, o) EXCEPT
                       !.version = spec.version]
    /\ synth' = [synth EXCEPT !.pc = "idle"]
    /\ UNCHANGED <<errors, inflight, localStorage, clock, tokens, issued>>

\* A specification saved without the engine: version 1, nothing filled in.
TurnStates(sid) == InputStates(sid, {<< >>}, {1}, {ZeroSummary})

NextTurn ==
    \/ Tick
    \/ createSession(0)
    \/ \E sid \in DOMAIN sessions : \E state \in TurnStates(sid) :
         synth.pc = "idle" /\ SaveSessionState(sid, state, 0)
    \/ \E sid \in CallIds : Turn(sid)
    \/ SynthesizeResume("rejects", << >>)
    \/ \E content \in TurnResponses : SynthesizeResume("answers", content)
    \/ TurnSave

SpecTurn == Init /\ [][NextTurn]_vars

\* Callers of an abandoned session: they queue and sync messages, save a
\* version 1 specification and ask for magic links.
AbandonMessages == { m \in Message : m.timestamp = 1 }

WriteHistories ==
    { h \in Histories : \A i \in DOMAIN h : h[i] \in AbandonMessages }

AbandonStates(sid) == InputStates(sid, {<< >>}, {1}, {DogSummary})

Abandoned == { s \in DOMAIN sessions : sessions[s].status = "abandoned" }

NextAbandon ==
    \/ createSession(0)
    \/ \E sid \in DOMAIN sessions : abandonSession(sid, 0)
    \/ \E sid \in DOMAIN sessions, message \in AbandonMessages :
         queueOfflineMessage(sid, message)
    \/ \E sid \in Abandoned : SyncOfflineMessages(sid, 0)
    \/ \E sid \in Abandoned :
         \E state \in AbandonStates(sid) : SaveSessionState(sid, state, 0)
    \/ \E sid \in Abandoned : generateMagicLink(sid, 0)

SpecAbandon == Init /\ [][NextAbandon]_vars

(***************************************************************************)
(* SessionManager.preserveErrorState.  currentState is << >> when the      *)
(* caller passes none, <<state>> otherwise.  The outcome carries the       *)
(* errors table next to the store.                                         *)
(***************************************************************************)
ErrorRow(sid, error, userInput, now) ==
    [session_id |-> sid, error_message |-> error, user_input |-> userInput,
     timestamp |-> now]

\* A preserveErrorState whose catch block throws the failure on.
preserveErrorState_Rethrows(db, errs, sid, error, userInput, currentState, now, f) ==
    IF f = 1
    THEN Outcome("throw", StoreError, NoSession, db, 1) @@ [errors |-> errs]
    ELSE
      LET errs1 == Append(errs, ErrorRow(sid, error, userInput, now))
      IN IF currentState = << >>
         THEN Outcome("ok", "", NoSession, db, 1) @@ [errors |-> errs1]
         ELSE LET s == saveSessionState(db, sid, currentState[1], now,
                                        IF f > 1 THEN f - 1 ELSE 0)
              IN Outcome(s.status, s.error, NoSession, s.db, s.statements + 1)
                   @@ [errors |-> errs1]

\* A preserveErrorState that saves the state before the error record.
preserveErrorState_SavesFirst(db, errs, sid, error, userInput, currentState, now, f) ==
    LET s == IF currentState = << >>
             THEN Outcome("ok", "", NoSession, db, 0)
             ELSE saveSessionState(db, sid, currentState[1], now,
                                   IF f > 1 THEN f - 1 ELSE 0)
    IN IF f = 1
       THEN Outcome("ok", "", NoSession, s.db, 1) @@ [errors |-> errs]
       ELSE Outcome("ok", "", NoSession, s.db, s.statements + 1) @@
              [errors |-> Append(errs, ErrorRow(sid, error, userInput, now))]

\* try { INSERT INTO errors; if (currentState) saveSessionState }
\* catch { console.error }: what was written before a failure stays.
preserveErrorState(db, errs, sid, error, userInput, currentState, now, f) ==
    IF f = 1
    THEN Outcome("ok", "", NoSession, db, 1) @@ [errors |-> errs]
    ELSE
      LET errs1 == Append(errs, ErrorRow(sid, error, userInput, now))
      IN IF currentState = << >>
         THEN Outcome("ok", "", NoSession, db, 1) @@ [errors |-> errs1]
         ELSE LET s == saveSessionState(db, sid, currentState[1], now,
                                        IF f > 1 THEN f - 1 ELSE 0)
              IN Outcome("ok", "", NoSession, s.db, s.statements + 1)
                   @@ [errors |-> errs1]

PreserveErrorState(sid, error, userInput, currentState, f) ==
    /\ LET o == preserveErrorState(DB, errors, sid, error, userInput,
                                   currentState, clock, f)
       IN /\ Fails(f, o)
          /\ Len(o.errors) <= MaxErrors
          /\ Store(o.db)
          /\ errors' = o.errors
          /\ ret' = [Ret("preserveErrorState", sid, NoToken, f, o) EXCEPT
                       !.version = IF currentState = << >> THEN -1
                                   ELSE currentState[1].specification.version]
    /\ UNCHANGED <<inflight, localStorage, clock, tokens, issued, synth>>

(***************************************************************************)
(* SessionManager.reconstructContextAfterError: the outcomes of one call.  *)
(* The outcome's session holds the state the call returns.                 *)
(***************************************************************************)
\* A reconstructContextAfterError without the try.
reconstructContextAfterError_Rethrows(db, sid, now, f) == getSession(db, sid, now, f)

\* try { getSession; null -> null; session.state } catch { null }
reconstructContextAfterError(db, sid, now, f) ==
    { IF g.status = "throw"
      THEN Outcome("null", "", NoSession, g.db, g.statements)
      ELSE g :
      g \in getSession(db, sid, now, f) }

ReconstructContextAfterError(sid, f) ==
    /\ \E o \in reconstructContextAfterError(DB, sid, clock, f) :
          /\ Fails(f, o)
          /\ Store(o.db)
          /\ ret' = Ret("reconstructContextAfterError", sid, NoToken, f, o)
    /\ UNCHANGED <<errors, inflight, localStorage, clock, tokens, issued, synth>>

\* Callers that report errors: with or without the input that failed, with
\* or without the state they hold.
ErrorMessages == {"boom"}

UserInputs == {"hi"}

ErrorStates(sid) ==
    {<< >>} \cup { <<state>> : state \in InputStates(sid, WriteHistories, {1}, {DogSummary}) }

NextErrors ==
    \/ createSession(0)
    \/ \E sid \in CallIds, f \in 0..4 : ReconstructContextAfterError(sid, f)
    \/ \E sid \in CallIds, error \in ErrorMessages, userInput \in UserInputs,
          f \in FailPoints :
         \E currentState \in ErrorStates(sid) :
           PreserveErrorState(sid, error, userInput, currentState, f)

SpecErrors == Init /\ [][NextErrors]_vars

\* A user who goes on writing while a sync is under way.
NextSyncRace ==
    \/ createSession(0)
    \/ \E sid \in DOMAIN sessions, message \in AbandonMessages :
         queueOfflineMessage(sid, message)
    \/ \E p \in Callers, sid \in CallIds : SyncRead(p, sid)
    \/ \E p \in Callers, f \in 0..1 : SyncResume(p, f)

SpecSyncRace == Init /\ [][NextSyncRace]_vars

\* Two callers that save the same session at the same time: each carries
\* the version 1 specification and at most one message of its own.
RaceStates(p, sid) ==
    InputStates(sid,
                { h \in Histories :
                    Len(h) <= 1 /\ \A i \in DOMAIN h :
                                     h[i].id = p /\ h[i].timestamp = 1 },
                {1}, {DogSummary})

NextSaveRace ==
    \/ createSession(0)
    \/ \E p \in Callers \cap MsgIds, sid \in DOMAIN sessions :
         \E state \in RaceStates(p, sid) : SaveBegin(p, sid, state)
    \/ \E p \in Callers : SaveInsertMessage(p)
    \/ \E p \in Callers : SaveReadVersion(p)
    \/ \E p \in Callers : SaveInsertSnapshot(p)
    \/ \E p \in Callers : SaveFinish(p)

SpecSaveRace == Init /\ [][NextSaveRace]_vars

\* A turn that carries the user's new message: the caller reads the
\* session, has the engine synthesize, and saves the history with the new
\* message appended and the specification the turn produced.
TurnMessage(sid, m) ==
    /\ synth.pc = "idle"
    /\ m.id \notin { r.id : r \in Range(messages) }
    /\ \E o \in getSession(DB, sid, clock, 0) :
          /\ o.status = "ok"
          /\ Store(o.db)
          /\ ret' = Ret("getSession", sid, NoToken, 0, o)
          /\ synth' = [pc |-> "awaiting",
                       input |-> [mode |-> "update",
                                  currentSpec |-> o.session.state.specification],
                       gateway |-> "none", content |-> << >>,
                       output |-> NoOutput]
          /\ inflight' = [inflight EXCEPT ![1] =
                            [NoCall EXCEPT !.op = "turn", !.pc = "synthesize",
                                           !.sid = sid,
                                           !.state = o.session.state,
                                           !.newMessages = <<m>>]]
    /\ UNCHANGED <<errors, localStorage, clock, tokens, issued>>

TurnMessageSave ==
    /\ synth.pc = "done"
    /\ synth.output.spec.kind # "undefined"
    /\ inflight[1].op = "turn"
    /\ LET sid   == inflight[1].sid
           spec  == TurnSpecification(synth.input.currentSpec, synth.output, clock)
           state == [inflight[1].state EXCEPT
                       !.conversationHistory = @ \o inflight[1].newMessages,
                       !.specification = spec]
           o     == saveSessionState(DB, sid, state, clock, 0)
       IN /\ Store(o.db)
          /\ ret' = [Ret("saveSessionState", sid, NoToken, 0, o) EXCEPT
                       !.version = spec.version]
    /\ synth' = [synth EXCEPT !.pc = "idle"]
    /\ inflight' = [inflight EXCEPT ![1] = [@ EXCEPT !.pc = "done"]]
    /\ UNCHANGED <<errors, localStorage, clock, tokens, issued>>

NextTurnMessage ==
    \/ Tick
    \/ \E f \in 0..2 : synth.pc = "idle" /\ createSession(f)
    \/ \E sid \in DOMAIN sessions : \E m \in AbandonMessages :
         TurnMessage(sid, m)
    \/ SynthesizeResume("rejects", << >>)
    \/ \E content \in TurnResponses : SynthesizeResume("answers", content)
    \/ TurnMessageSave

SpecTurnMessage == Init /\ [][NextTurnMessage]_vars

\* A client that queues messages with ids of its own minting and syncs
\* until a sync goes through: store requests fail now and then, and an
\* attempt without a failure is made in the end.
FreshId(id) ==
    /\ id \notin { r.id : r \in Range(messages) }
    /\ \A s \in DOMAIN localStorage :
          id \notin { m.id : m \in Range(getOfflineMessages(s)) }

NextRetry ==
    \/ createSession(0)
    \/ \E sid \in DOMAIN sessions, message \in Message :
         FreshId(message.id) /\ queueOfflineMessage(sid, message)
    \/ \E sid \in DOMAIN sessions, f \in FailPoints : SyncOfflineMessages(sid, f)

SpecRetry ==
    /\ Init
    /\ [][NextRetry]_vars
    /\ \A sid \in SessionIds : WF_vars(SyncOfflineMessages(sid, 0))

\* Saves whose store requests may be rejected: the SELECT of the stored ids
\* and every INSERT of a message are points of failure.
SaveFailStates(sid) ==
    InputStates(sid, { h \in WriteHistories : h # << >> }, Versions, {DogSummary})

NextSaveFail ==
    \/ Tick
    \/ createSession(0)
    \/ \E sid \in DOMAIN sessions :
         \E state \in SaveFailStates(sid), f \in 0..(MaxHistory + 1) :
           SaveSessionState(sid, state, f)

SpecSaveFail == Init /\ [][NextSaveFail]_vars

\* Callers of several sessions: each call names one session id.  Message 1
\* comes through the offline queue, message 2 through a save.
FrameMessage(id) == [id |-> id, role |-> "user", content |-> "hi", timestamp |-> 1]

FrameStates(sid) ==
    InputStates(sid, { <<FrameMessage(2)>> }, {1}, {DogSummary})

NextFrame ==
    \/ createSession(0)
    \/ \E sid \in DOMAIN sessions : GetSession(sid, 0)
    \/ \E sid \in DOMAIN sessions :
         \E state \in FrameStates(sid) : SaveSessionState(sid, state, 0)
    \/ \E sid \in DOMAIN sessions : generateMagicLink(sid, 0)
    \/ \E sid \in DOMAIN sessions : abandonSession(sid, 0)
    \/ \E sid \in DOMAIN sessions : queueOfflineMessage(sid, FrameMessage(1))
    \/ \E sid \in DOMAIN sessions : SyncOfflineMessages(sid, 0)

SpecFrame == Init /\ [][NextFrame]_vars

\* A client that syncs whenever it comes online, with or without queued
\* messages, for ids with or without a session.
NextEmptySync ==
    \/ Tick
    \/ createSession(0)
    \/ \E sid \in DOMAIN sessions, message \in AbandonMessages :
         queueOfflineMessage(sid, message)
    \/ \E sid \in CallIds, f \in FailPoints : SyncOfflineMessages(sid, f)

SpecEmptySync == Init /\ [][NextEmptySync]_vars

\* Callers that only use the offline queue.
NextQueue ==
    \/ createSession(0)
    \/ \E sid \in CallIds, message \in Message : queueOfflineMessage(sid, message)
    \/ \E sid \in CallIds : ClearOfflineMessages(sid)

SpecQueue == Init /\ [][NextQueue]_vars

\* Sessions whose first snapshot was never written: the second INSERT of
\* createSession can be rejected after the first has gone through.
NextDefault ==
    \/ Tick
    \/ \E f \in 0..2 : createSession(f)
    \/ \E sid \in CallIds : GetSession(sid, 0)
    \/ \E sid \in DOMAIN sessions :
         \E state \in AbandonStates(sid) : SaveSessionState(sid, state, 0)

SpecDefault == Init /\ [][NextDefault]_vars

(***************************************************************************)
(* The whole program: every caller at once.                                *)
(***************************************************************************)
Next ==
    \/ NextMessages \/ NextSnapshots \/ NextOffline \/ NextLink
    \/ NextSynth \/ NextTurn \/ NextAbandon \/ NextErrors \/ NextSyncRace
    \/ NextSaveRace \/ NextDefault \/ NextTurnMessage \/ NextQueue \/ NextRetry
    \/ NextSaveFail \/ NextFrame \/ NextEmptySync

Spec == Init /\ [][Next]_vars

(***************************************************************************)
(* Claims about stored messages and snapshots.                             *)
(***************************************************************************)
\* The stored messages of a session, in the order they were inserted.
InsertionOrder(sid) ==
    [ i \in DOMAIN MessagesOf(DB, sid) |-> RowMessage(MessagesOf(DB, sid)[i]) ]

\* The number of stored snapshots of a session with a version.
SnapshotCount(sid, v) ==
    Count(SnapshotsOf(DB, sid), LAMBDA r : r.version = v)

Returned == ret.session.state.conversationHistory

\* C1: after saveSessionState calls with overlapping histories, getSession
\* returns a message list in which no id occurs twice and in which the
\* messages come in the order in which they were first inserted.
C1_NoDuplicatesInsertionOrder ==
    (ret.op = "getSession" /\ ret.status = "ok") =>
        /\ NoDuplicates(Ids(Returned))
        /\ Returned = InsertionOrder(ret.sid)

\* C2: after any sequence of saveSessionState calls the store holds at most
\* one snapshot per version number for a session (and snapshots are only ever
\* appended).
C2_OneSnapshotPerVersion ==
    \A sid \in SessionIds \cup {UnknownId} : \A v \in Versions :
        SnapshotCount(sid, v) <= 1

\* C3: saving twice in a row a state whose specification version is unchanged,
\* that is, is the session's latest stored version, creates no second
\* snapshot: the store holds exactly one snapshot with that version.
C3_UnchangedVersionOneSnapshot ==
    ( /\ ret.op = "saveSessionState"
      /\ ret.status = "ok"
      /\ ret.again
      /\ ret.version = CurrentVersion(DB, ret.sid) ) =>
        SnapshotCount(ret.sid, ret.version) = 1

\* A state C3 is about: version 1 was saved twice in a row for a session that
\* createSession seeded with version 0.
C3_Witness ==
    /\ ret.op = "saveSessionState"
    /\ ret.status = "ok"
    /\ ret.again
    /\ ret.sid \in DOMAIN sessions
    /\ ret.version = 1
    /\ ret.version = CurrentVersion(DB, ret.sid)
    /\ SnapshotCount(ret.sid, 0) = 1
    /\ SnapshotCount(ret.sid, 1) = 1

(***************************************************************************)
(* Claims about syncOfflineMessages.                                       *)
(***************************************************************************)
\* The message lists a getSession call on the current state can return.
GetSessionHistories(db, sid) ==
    { o.session.state.conversationHistory : o \in getSession(db, sid, 0, 0) }

\* A step that is a syncOfflineMessages call on a non-empty queue.
SyncStep ==
    /\ ret'.op = "syncOfflineMessages"
    /\ localStorage[ret'.sid] # << >>

\* The n stored and the m queued messages of the session are n + m messages:
\* no id occurs twice among them.
DistinctMessages(sid) ==
    NoDuplicates(Ids(InsertionOrder(sid) \o getOfflineMessages(sid)))

\* C4: when syncOfflineMessages runs for a session with n synced and m queued
\* messages and the persist succeeds, a following getSession returns the n
\* synced messages and then the m queued ones, each group in its original
\* order, and the session's queue is empty.
C4_SyncAppendsQueue ==
    [][ (SyncStep /\ DistinctMessages(ret'.sid) /\ ret'.status = "ok") =>
          /\ GetSessionHistories(DB', ret'.sid) =
                { InsertionOrder(ret'.sid) \o getOfflineMessages(ret'.sid) }
          /\ localStorage'[ret'.sid] = << >> ]_vars

\* C5: when a store request of the persist step (getSession or
\* saveSessionState) fails during syncOfflineMessages, the failure reaches the
\* caller and the local queue is exactly as it was before the call.
C5_FailedSyncKeepsQueue ==
    [][ (SyncStep /\ ret'.failed) =>
          /\ ret'.status = "throw"
          /\ ret'.error = StoreError
          /\ localStorage' = localStorage ]_vars

\* A state C5 is about: a sync failed after it had inserted a queued message,
\* and the queue still holds the messages.
C5_Witness ==
    /\ ret.op = "syncOfflineMessages"
    /\ ret.failed
    /\ ret.status = "throw"
    /\ Len(localStorage[ret.sid]) = 2
    /\ \E i \in DOMAIN messages :
          /\ messages[i].session_id = ret.sid
          /\ RowMessage(messages[i]) = getOfflineMessages(ret.sid)[1]

(***************************************************************************)
(* Claims about magic links.                                               *)
(***************************************************************************)
\* The tokens generateMagicLink returned for an existing session, and the
\* one it returned last.
IssuedFor(sid) == { t \in Tokens : issued[t] = sid }

LatestToken(sid) == IF IssuedFor(sid) = {} THEN NoToken ELSE Max(IssuedFor(sid))

\* Two Session values that differ at most in lastAccessedAt.
SameButAccess(a, b) ==
    [a EXCEPT !.lastAccessedAt = 0] = [b EXCEPT !.lastAccessedAt = 0]

RestoreStep == ret'.op = "restoreSessionFromMagicLink" /\ ~ret'.failed

\* C6: for an existing session, restoreSessionFromMagicLink with the token
\* generateMagicLink returned yields the session getSession yields for that
\* id: same id, createdAt, messages, specification and token.
C6_RestoreEqualsGetSession ==
    [][ \A sid \in DOMAIN sessions :
          (RestoreStep /\ ret'.token = LatestToken(sid)) =>
             /\ ret'.status = "ok"
             /\ \E o \in getSession(DB, sid, clock, 0) :
                   /\ o.status = "ok"
                   /\ SameButAccess(ret'.session, o.session) ]_vars

\* A state C6 is about: a restore returned a session with a stored message
\* and the token, after the session was read at an earlier time.
C6_Witness ==
    /\ ret.op = "restoreSessionFromMagicLink"
    /\ ret.status = "ok"
    /\ ret.token = LatestToken(ret.sid)
    /\ ret.session.magicLinkToken = ret.token
    /\ Len(ret.session.state.conversationHistory) = 2
    /\ ret.session.state.specification.version = 1
    /\ sessions[ret.sid].last_accessed_at > ret.session.lastAccessedAt

\* C7: restoreSessionFromMagicLink with a token that no session holds never
\* returns a session; it fails with 'Invalid or expired magic link token'.
C7_UnknownTokenFails ==
    ( /\ ret.op = "restoreSessionFromMagicLink"
      /\ \A sid \in DOMAIN sessions : sessions[sid].magic_link_token # ret.token ) =>
        /\ ret.status = "throw"
        /\ ~ret.failed => ret.error = InvalidToken

\* A state C7 is about: a session holds a token, and a restore with another
\* token, one that was never minted, failed.
C7_Witness ==
    /\ ret.op = "restoreSessionFromMagicLink"
    /\ ret.token > tokens
    /\ ret.error = InvalidToken
    /\ \E sid \in DOMAIN sessions : sessions[sid].magic_link_token # NoToken

\* C8: a session has at most one valid token: once generateMagicLink has run
\* again for the session, a restore with an earlier token of the session
\* fails, and a restore succeeds only with the token returned last.
C8_OnlyLatestTokenValid ==
    (ret.op = "restoreSessionFromMagicLink" /\ issued[ret.token] # 0) =>
        /\ ret.token # LatestToken(issued[ret.token]) =>
              /\ ret.status = "throw"
              /\ ~ret.failed => ret.error = InvalidToken
        /\ ret.status = "ok" =>
              /\ ret.session.id = issued[ret.token]
              /\ ret.token = LatestToken(ret.session.id)

\* A state C8 is about: a restore with the first token of a session failed
\* after the session got a second token.
C8_Witness ==
    /\ ret.op = "restoreSessionFromMagicLink"
    /\ issued[ret.token] \in DOMAIN sessions
    /\ ret.token < LatestToken(issued[ret.token])
    /\ ret.error = InvalidToken

\* C9: a token is not consumed by use: unless generateMagicLink runs again
\* for the session, every operation, a restore included, leaves the token
\* valid, and every restore with it succeeds and resolves to the session.
C9_TokenNotConsumed ==
    [][ \A sid \in DOMAIN sessions :
          ( /\ LatestToken(sid) # NoToken
            /\ sessions[sid].magic_link_token = LatestToken(sid)
            /\ ~(ret'.op = "generateMagicLink" /\ ret'.sid = sid) ) =>
              /\ sessions'[sid].magic_link_token = LatestToken(sid)
              /\ (RestoreStep /\ ret'.token = LatestToken(sid)) =>
                    (ret'.status = "ok" /\ ret'.session.id = sid) ]_vars

\* A state C9 is about: the same token restored the session twice in a row,
\* after the session was saved and abandoned.
C9_Witness ==
    /\ ret.op = "restoreSessionFromMagicLink"
    /\ ret.status = "ok"
    /\ ret.again
    /\ sessions[ret.sid].status = "abandoned"
    /\ Len(ret.session.state.conversationHistory) = 2

C11_NoSpecKeyFallsBack ==
    (/\ synth.gateway = "answers"
     /\ Parses(JsonContent(synth.content))
     /\ ~JSONParse(JsonContent(synth.content)).hasSpec) =>
        /\ synth.output.status = "ok"
        /\ synth.output.spec.kind = "current"
        /\ synth.output.spec.value = synth.input.currentSpec
        /\ synth.output.missingSections =
              <<"overview", "targetUsers", "keyFeatures", "flows">>

\* C12: in finalize mode synthesize always returns missingSections = [],
\* whatever the input specification and whatever the gateway did.
C12_FinalizeReportsNothingMissing ==
    (synth.pc = "done" /\ synth.input.mode = "finalize") =>
        synth.output.missingSections = << >>

\* C13 as stated: when the gateway call itself fails, synthesize does not
\* catch the failure; it fails to its caller and yields no fallback result.
C13_GatewayFailurePropagates ==
    synth.gateway = "rejects" => synth.output.status = "throw"

\* C13 as amended: when the gateway call itself fails, synthesize catches
\* the failure and returns the unchanged input currentSpec with the fixed
\* default missing-section list; it does not throw.
C13_GatewayFailureFallsBack ==
    synth.gateway = "rejects" =>
        /\ synth.output.status = "ok"
        /\ synth.output.spec.kind = "current"
        /\ synth.output.spec.value = synth.input.currentSpec
        /\ synth.output.missingSections =
              <<"overview", "targetUsers", "keyFeatures", "flows">>

\* A state C13 is about: the gateway rejected an update of a version 1
\* specification.
C13_Witness ==
    /\ synth.pc = "done"
    /\ synth.gateway = "rejects"
    /\ synth.input.mode = "update"
    /\ synth.input.currentSpec.version = 1
    /\ synth.input.currentSpec.plainEnglishSummary = DogSummary
    /\ synth.output.status = "ok"

\* The content is a JSON payload (white space around it allowed) wrapped in
\* a leading fence, optionally followed at once by one of the tags, and a
\* trailing fence.
FencedBody(content, tags) ==
    LET inner == SubSeq(content, 2, Len(content) - 1)
    IN IF inner # << >> /\ Head(inner) \in tags THEN Tail(inner) ELSE inner

IsFenced(content, tags) ==
    /\ Len(content) >= 3
    /\ content[1] = Fence
    /\ content[Len(content)] = Fence
    /\ Len(Trim(FencedBody(content, tags))) = 1
    /\ Trim(FencedBody(content, tags))[1] \in Documents

\* The same payload without the fences.
Unfenced(content, tags) == << Trim(FencedBody(content, tags))[1] >>

SameAsUnfenced(tags) ==
    (synth.gateway = "answers" /\ IsFenced(synth.content, tags)) =>
        synth.output =
            synthesize(synth.input, "answers", Unfenced(synth.content, tags))

\* C14 as stated: a JSON payload wrapped in a leading fence, optionally
\* followed by a language tag, and a trailing fence gives the same
\* {spec, missingSections} as the payload without fences.
C14_FencedParsesAsUnfenced == SameAsUnfenced({JsonTag, Text})

\* C14 as amended: a JSON payload wrapped in a leading fence, optionally
\* followed at once by the tag json, and a trailing fence gives the same
\* {spec, missingSections} as the payload without fences.
C14_JsonFencedParsesAsUnfenced == SameAsUnfenced({JsonTag})

\* A state C14 is about: a payload under a json fence, parsed to the
\* specification it holds.
C14_Witness ==
    /\ synth.gateway = "answers"
    /\ synth.content = <<Fence, JsonTag, "{spec,missingSections:[flows]}", Fence>>
    /\ synth.output.spec.kind = "model"
    /\ synth.output.missingSections = <<"flows">>

(***************************************************************************)
(* Claims about a turn.                                                    *)
(***************************************************************************)
\* The step that saves the result of an update in which the gateway returned
\* a materially different specification.
TurnSaveStep ==
    /\ synth.pc = "done"
    /\ synth'.pc = "idle"
    /\ ret'.op = "saveSessionState"
    /\ ret'.status = "ok"
    /\ synth.input.mode = "update"
    /\ synth.output.spec.kind = "model"
    /\ MateriallyDifferent(synth.input.currentSpec, synth.output.spec.value)

ZeroValued(spec) ==
    /\ spec.plainEnglishSummary.overview = ""
    /\ spec.plainEnglishSummary.keyFeatures = << >>
    /\ spec.plainEnglishSummary.targetUsers = ""
    /\ spec.plainEnglishSummary.integrations = << >>
    /\ spec.formalPRD.introduction = ""
    /\ spec.formalPRD.glossary = << >>
    /\ spec.formalPRD.requirements = << >>
    /\ spec.formalPRD.nonFunctionalRequirements = << >>

\* C16: createSession followed immediately by getSession on the returned id
\* returns a specification at version 0 with every list field empty and
\* every text field the empty string, an empty conversation history, and
\* the store holds exactly one snapshot (version 0) for that session.
C16_FreshSessionIsZero ==
    [][(/\ ret.op = "createSession"
        /\ ret.status = "ok"
        /\ ret'.op = "getSession"
        /\ ret'.sid = ret.sid) =>
         /\ ret'.status = "ok"
         /\ ret'.session.id = ret.sid
         /\ ret'.session.state.specification.version = 0
         /\ ZeroValued(ret'.session.state.specification)
         /\ ret'.session.state.conversationHistory = << >>
         /\ Len(SnapshotsOf(DB', ret.sid)) = 1
         /\ SnapshotsOf(DB', ret.sid)[1].version = 0]_vars

\* A state C16 is about: the second session was created after the first
\* had gathered snapshots, and getSession returned it.
C16_Witness ==
    /\ ret.op = "getSession"
    /\ ret.status = "ok"
    /\ ret.sid = 2
    /\ Len(SnapshotsOf(DB, 1)) > 1
    /\ Len(SnapshotsOf(DB, 2)) = 1
    /\ ret.session.state.specification.version = 0
    /\ ret.session.lastAccessedAt = sessions[2].created_at

\* C17: getSession with an id for which no session record exists returns
\* null without throwing and leaves every stored session, message, snapshot
\* and lastAccessedAt unchanged.
C17_UnknownIdReturnsNull ==
    [][(/\ ret'.op = "getSession"
        /\ ret'.sid \notin DOMAIN sessions
        /\ ~ret'.failed) =>
         /\ ret'.status = "null"
         /\ ret'.error = ""
         /\ sessions' = sessions
         /\ messages' = messages
         /\ specifications' = specifications]_vars

\* A state C17 is about: getSession of an unknown id returned null while the
\* store held a session last accessed earlier, with messages.
C17_Witness ==
    /\ ret.op = "getSession"
    /\ ret.sid \notin DOMAIN sessions
    /\ ret.status = "null"
    /\ messages # << >>
    /\ \E s \in DOMAIN sessions : sessions[s].last_accessed_at < clock

\* What getSession can return of a session's data: the conversation history
\* and the latest specification.
Retrievable(db, sid) ==
    { <<o.session.state.conversationHistory, o.session.state.specification>> :
        o \in getSession(db, sid, 0, 0) }

\* C18: a session's status only moves from active to abandoned: once
\* abandonSession has run no operation sets it back to active, and
\* getSession after abandonSession returns the same messages and latest
\* specification as before.
C18_AbandonedStaysAbandoned ==
    [][\A s \in DOMAIN sessions :
         /\ sessions'[s].status \in {"active", "abandoned"}
         /\ sessions[s].status = "abandoned" => sessions'[s].status = "abandoned"
         /\ (ret'.op = "abandonSession" /\ ret'.sid = s /\ ret'.status = "ok") =>
               /\ sessions'[s].status = "abandoned"
               /\ Retrievable(DB', s) = Retrievable(DB, s)]_vars

\* A state C18 is about: getSession has just returned the messages and the
\* version 1 specification of an abandoned session.
C18_Witness ==
    /\ ret.op = "getSession"
    /\ ret.status = "ok"
    /\ ret.sid \in DOMAIN sessions
    /\ sessions[ret.sid].status = "abandoned"
    /\ Len(ret.session.state.conversationHistory) = 2
    /\ ret.session.state.specification.version = 1

\* The store with a session's status set back to active.
Activated(db, sid) == [db EXCEPT !.sessions[sid].status = "active"]

\* The states tried on an abandoned session: any history of the callers'
\* messages, any version.
WriteStates(sid) == InputStates(sid, WriteHistories, Versions, {DogSummary})

\* C19: abandonment does not gate writes: saveSessionState,
\* generateMagicLink and syncOfflineMessages on an abandoned session have
\* exactly the same effect on messages, snapshots and token as on an active
\* session.
C19_AbandonedIsWritable ==
    \A s \in DOMAIN sessions :
      sessions[s].status = "abandoned" =>
        /\ \A state \in WriteStates(s) :
              LET o == saveSessionState(DB, s, state, clock, 0)
              IN [o EXCEPT !.db = Activated(o.db, s)] =
                   saveSessionState(Activated(DB, s), s, state, clock, 0)
        /\ \A token \in Tokens :
              Activated(SetToken(DB, s, token), s) =
                SetToken(Activated(DB, s), s, token)
        /\ { [o EXCEPT !.db = Activated(o.db, s)] :
                o \in syncOfflineMessages(DB, localStorage, s, clock, 0) } =
             syncOfflineMessages(Activated(DB, s), localStorage, s, clock, 0)

\* A state C19 is about: an abandoned session whose queue has just been
\* synced into the store, holding a version 1 snapshot and a magic link.
C19_Witness ==
    /\ ret.op = "syncOfflineMessages"
    /\ ret.status = "ok"
    /\ ret.sid \in DOMAIN sessions
    /\ sessions[ret.sid].status = "abandoned"
    /\ sessions[ret.sid].magic_link_token # NoToken
    /\ Len(MessagesOf(DB, ret.sid)) = 2
    /\ CurrentVersion(DB, ret.sid) = 1
    /\ \E s \in DOMAIN sessions : localStorage[s] # << >>

(***************************************************************************)
(* Claims about preserveErrorState.                                        *)
(***************************************************************************)
\* C20: preserveErrorState never throws or rejects: whether the write of the
\* error record or the nested saveSessionState fails, the call completes
\* normally to its caller.
C20_PreserveNeverThrows ==
    ret.op = "preserveErrorState" => (ret.status = "ok" /\ ret.error = "")

\* A state C20 is about: the nested saveSessionState failed after the error
\* record and one message had been written, and the call returned.
C20_Witness ==
    /\ ret.op = "preserveErrorState"
    /\ ret.failed
    /\ ret.status = "ok"
    /\ errors # << >>
    /\ Len(MessagesOf(DB, ret.sid)) = 1

\* C21: reconstructContextAfterError never throws: it returns the state
\* getSession returns for the id, or null when the session does not exist
\* or when any store operation inside getSession fails.
C21_ReconstructNeverThrows ==
    [][ret'.op = "reconstructContextAfterError" =>
         /\ ret'.status \in {"ok", "null"}
         /\ ret'.error = ""
         /\ (ret'.failed \/ ret'.sid \notin DOMAIN sessions) =>
               ret'.status = "null"
         /\ (~ret'.failed /\ ret'.sid \in DOMAIN sessions) =>
               /\ ret'.status = "ok"
               /\ ret'.session.state \in
                    { o.session.state : o \in getSession(DB, ret'.sid, clock, 0) }]_vars

\* A state C21 is about: a store operation inside getSession failed for a
\* session that holds messages, and the call returned null.
C21_Witness ==
    /\ ret.op = "reconstructContextAfterError"
    /\ ret.failed
    /\ ret.status = "null"
    /\ ret.sid \in DOMAIN sessions
    /\ MessagesOf(DB, ret.sid) # << >>

\* C22: every successful getSession (also through
\* restoreSessionFromMagicLink) and every successful saveSessionState
\* refreshes the session's stored lastAccessedAt, so the stored
\* lastAccessedAt never decreases over any sequence of operations.
C22_LastAccessedRefreshed ==
    [][/\ \A s \in DOMAIN sessions :
            sessions'[s].last_accessed_at >= sessions[s].last_accessed_at
       /\ (/\ ret'.op \in {"getSession", "restoreSessionFromMagicLink",
                            "saveSessionState"}
           /\ ret'.status = "ok"
           /\ ret'.sid \in DOMAIN sessions'
           /\ clock' = clock) =>
             sessions'[ret'.sid].last_accessed_at = clock]_vars

\* A state C22 is about: a session created at time 0 was saved at time 1
\* and its stored lastAccessedAt is 1.
C22_Witness ==
    /\ ret.op = "saveSessionState"
    /\ ret.status = "ok"
    /\ clock = 1
    /\ sessions[ret.sid].created_at = 0
    /\ sessions[ret.sid].last_accessed_at = 1

\* C23: a stored message is immutable: once a message id is stored for a
\* session, no later saveSessionState, even one carrying a message with the
\* same id but another role, content or timestamp, changes or removes the
\* stored message (or stores a second message under that id).
C23_StoredMessageImmutable ==
    [][/\ Len(messages') >= Len(messages)
       /\ SubSeq(messages', 1, Len(messages)) = messages
       /\ \A s \in DOMAIN sessions' : NoDuplicates(Ids(MessagesOf(DB', s)))]_vars

\* A state C23 is about: a saveSessionState that carried a message under a
\* stored id with other data has succeeded.
C23_Witness ==
    /\ ret.op = "saveSessionState"
    /\ ret.status = "ok"
    /\ ret.conflict
    /\ Len(MessagesOf(DB, ret.sid)) = 2

(***************************************************************************)
(* Claims about calls that run at the same time.                           *)
(***************************************************************************)
\* C24: every message passed to queueOfflineMessage is, at every later
\* point, still in the session's local offline queue or persisted in the
\* session's message log, also when it was queued while a
\* syncOfflineMessages of the same session was in flight: no step drops a
\* queued message that is not persisted.
C24_QueuedMessageNeverLost ==
    [][\A s \in DOMAIN localStorage :
         \A m \in Range(localStorage[s]) :
           \/ m \in Range(localStorage'[s])
           \/ \E r \in Range(MessagesOf(DB', s)) : r.id = m.id]_vars

\* Caller p is about to write, or has written, a snapshot of version v for
\* session s that differed from the latest version it read.
Inserting(p, s, v) ==
    /\ inflight[p].op = "saveSessionState"
    /\ inflight[p].sid = s
    /\ inflight[p].state.specification.version = v
    /\ inflight[p].currentVersion # v

\* C25: saveSessionState is not atomic under concurrency: when two
\* concurrent calls for the same session both carry a version v that
\* differs from the latest version each has read, each writes its snapshot
\* whatever the other wrote meanwhile, and the store ends with two
\* snapshots of version v.
C25_ConcurrentSavesDuplicateVersion ==
    [][\A p \in Callers :
         (/\ inflight[p].pc = "insertSnapshot"
          /\ inflight'[p].pc = "updateLastAccessedTime"
          /\ inflight[p].state.specification.version # inflight[p].currentVersion) =>
            LET s == inflight[p].sid
                v == inflight[p].state.specification.version
            IN /\ Len(SnapshotsOf(DB', s)) = Len(SnapshotsOf(DB, s)) + 1
               /\ \A q \in Callers \ {p} :
                    (Inserting(q, s, v) /\ inflight[q].pc = "updateLastAccessedTime") =>
                      Cardinality({ i \in DOMAIN specifications' :
                                      /\ specifications'[i].session_id = s
                                      /\ specifications'[i].version = v }) >= 2]_vars

\* The state C25 speaks of: two calls for one session have both written
\* their snapshot of version 1 against a stored latest version 0, and the
\* store holds two snapshots of version 1.
C25_Witness ==
    \E p, q \in Callers :
      /\ p # q
      /\ inflight[p].sid = inflight[q].sid
      /\ inflight[p].sid \in DOMAIN sessions
      /\ Inserting(p, inflight[p].sid, 1) /\ inflight[p].pc = "updateLastAccessedTime"
      /\ Inserting(q, inflight[p].sid, 1) /\ inflight[q].pc = "updateLastAccessedTime"
      /\ inflight[p].currentVersion = 0
      /\ inflight[q].currentVersion = 0
      /\ Cardinality({ i \in DOMAIN specifications :
                         /\ specifications[i].session_id = inflight[p].sid
                         /\ specifications[i].version = 1 }) = 2

(***************************************************************************)
(* Claims about what getSession reads.                                     *)
(***************************************************************************)
\* The position of a message id in the session's insertion order.
InsertedAt(db, sid, id) ==
    CHOOSE i \in DOMAIN MessagesOf(db, sid) : MessagesOf(db, sid)[i].id = id

\* The history is ascending in timestamp, and messages with equal
\* timestamps come in their insertion order.
TieBrokenByInsertion(db, sid, history) ==
    \A i, j \in DOMAIN history :
      i < j =>
        /\ history[i].timestamp <= history[j].timestamp
        /\ history[i].timestamp = history[j].timestamp =>
              InsertedAt(db, sid, history[i].id) < InsertedAt(db, sid, history[j].id)

\* C26: the message order returned by getSession is total and stable:
\* messages whose timestamps are equal are returned in their insertion
\* order, and two getSession calls with no write between them return the
\* messages in the same order.
C26_OrderTotalAndStable ==
    [][(ret'.op = "getSession" /\ ret'.status = "ok") =>
         /\ TieBrokenByInsertion(DB', ret'.sid,
                                 ret'.session.state.conversationHistory)
         /\ (/\ ret.op = "getSession"
             /\ ret.status = "ok"
             /\ ret.sid = ret'.sid
             /\ messages' = messages) =>
               ret'.session.state.conversationHistory =
                 ret.session.state.conversationHistory]_vars

\* C27: getSession returns, as the session's current specification, the
\* stored snapshot with the highest version number among all snapshots of
\* the session, whatever the order in which the snapshots were saved.
C27_HighestVersionIsCurrent ==
    (ret.op = "getSession" /\ ret.status = "ok"
       /\ SnapshotsOf(DB, ret.sid) # << >>) =>
        LET rows == SnapshotsOf(DB, ret.sid)
            spec == ret.session.state.specification
        IN /\ \A i \in DOMAIN rows : rows[i].version <= spec.version
           /\ \E i \in DOMAIN rows :
                /\ rows[i].version = spec.version
                /\ rows[i].plain_english_summary = spec.plainEnglishSummary
                /\ rows[i].formal_prd = spec.formalPRD
                /\ rows[i].progress_state = ret.session.state.progress
                /\ \A j \in DOMAIN rows : rows[j].version = spec.version => j = i

\* A state C27 is about: version 1 was saved before a version 0 snapshot
\* with other content, and getSession returned version 1.
C27_Witness ==
    /\ ret.op = "getSession"
    /\ ret.status = "ok"
    /\ ret.session.state.specification.version = 1
    /\ LET rows == SnapshotsOf(DB, ret.sid)
       IN /\ Len(rows) = 3
          /\ rows[2].version = 1
          /\ rows[3].version = 0
          /\ rows[3].plain_english_summary # rows[2].plain_english_summary

\* C28: when a session exists but has no stored specification snapshot,
\* getSession returns a zero-value specification at version 0 built in
\* memory and writes no snapshot: the snapshot count of the session is
\* still 0 after the read.
C28_DefaultSpecificationNotPersisted ==
    [][(/\ ret'.op = "getSession"
        /\ ret'.status = "ok"
        /\ SnapshotsOf(DB, ret'.sid) = << >>) =>
         /\ ret'.session.state.specification.id = ret'.sid
         /\ ret'.session.state.specification.version = 0
         /\ ZeroValued(ret'.session.state.specification)
         /\ ret'.session.state.progress = ZeroProgress
         /\ specifications' = specifications
         /\ Len(SnapshotsOf(DB', ret'.sid)) = 0]_vars

\* A state C28 is about: getSession has returned a session that has no
\* snapshot, while another session has some.
C28_Witness ==
    /\ ret.op = "getSession"
    /\ ret.status = "ok"
    /\ SnapshotsOf(DB, ret.sid) = << >>
    /\ specifications # << >>
    /\ ret.session.state.specification.version = 0
    /\ sessions[ret.sid].last_accessed_at > sessions[ret.sid].created_at

\* The step that saves a turn whose synthesis fell back: the engine returned
\* the input specification, and the caller saves it with the new message.
FallbackSaveStep ==
    /\ synth.pc = "done"
    /\ synth'.pc = "idle"
    /\ inflight[1].op = "turn"
    /\ inflight'[1].pc = "done"
    /\ ret'.op = "saveSessionState"
    /\ ret'.status = "ok"
    /\ synth.output.spec = SpecValue("current", synth.input.currentSpec)

\* The specifications getSession can return for a session.
CurrentSpecifications(db, sid) ==
    { o.session.state.specification : o \in getSession(db, sid, clock, 0) }

\* The message of a fallback turn is stored and every getSession shows it.
FallbackMessageVisible ==
    LET sid == inflight[1].sid
        m   == inflight[1].newMessages[1]
    IN /\ MessageRow(sid, m) \in Range(messages')
       /\ \A o \in getSession(DB', sid, clock, 0) :
             m \in Range(o.session.state.conversationHistory)

\* C29: when synthesis falls back (returns the input specification
\* unchanged) and the caller then saves the session state with the new user
\* message and the returned specification, the message is persisted and
\* visible in getSession while the number of stored snapshots and the
\* current specification stay unchanged.
C29_FallbackSaveKeepsSpecification ==
    [][FallbackSaveStep =>
         LET sid == inflight[1].sid
         IN /\ FallbackMessageVisible
            /\ Len(SnapshotsOf(DB', sid)) = Len(SnapshotsOf(DB, sid))
            /\ CurrentSpecifications(DB', sid) = CurrentSpecifications(DB, sid)]_vars

(***************************************************************************)
(* Claims about the offline queue.                                         *)
(***************************************************************************)
\* The queues of the session ids other than sid read the same before and
\* after the step.
OtherQueuesUnchanged(sid) ==
    \A t \in DOMAIN localStorage \ {sid} :
       OfflineMessages(localStorage', t) = getOfflineMessages(t)

ResolvesTo(token) ==
    { o.session.id : o \in { r \in restoreSessionFromMagicLink(DB, token, clock, 0) :
                                r.status = "ok" } }

\* C31: no two sessions ever hold the same magic-link token: in every
\* reachable state a token resolves (via restoreSessionFromMagicLink) to at
\* most one session id.
C31_TokenHeldByOneSession ==
    \A token \in Tokens :
       /\ Cardinality(SessionsWithToken(DB, token)) <= 1
       /\ Cardinality(ResolvesTo(token)) <= 1

\* A state C31 is about: two sessions hold a token each, and a restore has
\* resolved one of the tokens to its session.
C31_Witness ==
    /\ ret.op = "restoreSessionFromMagicLink"
    /\ ret.status = "ok"
    /\ ResolvesTo(ret.token) = {ret.sid}
    /\ \E s \in DOMAIN sessions \ {ret.sid} :
          /\ sessions[s].magic_link_token # NoToken
          /\ ResolvesTo(sessions[s].magic_link_token) = {s}

(***************************************************************************)
(* Claims about failures part-way.                                         *)
(***************************************************************************)
\* The last call was a syncOfflineMessages of session s that threw after it
\* had inserted queued message m, which is still in the queue.
FailedPartWay(s, m) ==
    /\ ret.op = "syncOfflineMessages"
    /\ ret.sid = s
    /\ ret.status = "throw"
    /\ m \in Range(getOfflineMessages(s))
    /\ MessageRow(s, m) \in Range(messages)

\* The queue of s is empty and m is stored once in the message log of s.
SyncedOnce(s, m) ==
    /\ getOfflineMessages(s) = << >>
    /\ Count(MessagesOf(DB, s), LAMBDA r : r.id = m.id) = 1
    /\ MessageRow(s, m) \in Range(MessagesOf(DB, s))

\* C32: if syncOfflineMessages fails part-way (some queued messages already
\* inserted, then a store failure) and is retried until it succeeds, then
\* eventually the queue is empty and every queued message is stored exactly
\* once in the session's message log (no duplicates from the retry).
C32_RetriedSyncStoresOnce ==
    \A s \in SessionIds, m \in Message :
       FailedPartWay(s, m) ~>
         (SyncedOnce(s, m) /\ ret.op = "syncOfflineMessages" /\ ret.status = "ok")

\* A state C32 is about: a sync of two queued messages has thrown after it
\* had inserted the first one, and both are still queued for the retry.
C32_Witness ==
    \E s \in DOMAIN sessions :
       /\ Len(getOfflineMessages(s)) = 2
       /\ FailedPartWay(s, getOfflineMessages(s)[1])
       /\ Len(MessagesOf(DB, s)) = 1

\* The rows of messages i..j of a list.
MessageRows(sid, msgs, i, j) ==
    [ n \in 1..(j - i + 1) |-> MessageRow(sid, msgs[n + i - 1]) ]

\* What a save of state that is rejected at statement f leaves, when f is the
\* insert of a new message, and what the same save makes of it afterwards.
FailedInsertThenRetry(sid, state, f) ==
    LET new   == NewMessages(DB, sid, state)
        k     == Len(new)
        retry == saveSessionState(DB', sid, state, clock', 0)
    IN /\ messages' = messages \o MessageRows(sid, new, 1, f - 2)
       /\ specifications' = specifications
       /\ sessions' = sessions
       /\ retry.status = "ok"
       /\ retry.db.messages = messages' \o MessageRows(sid, new, f - 1, k)
       /\ retry.db.specifications =
             IF VersionChanged(DB, sid, state)
             THEN Append(specifications, SnapshotRow(sid, state, clock'))
             ELSE specifications
       /\ retry.db.sessions[sid].last_accessed_at = clock'

\* C33: if saveSessionState fails while inserting the k-th new message, the
\* messages inserted before it stay persisted, no specification snapshot is
\* written and lastAccessedAt is not refreshed by that call; a later
\* successful saveSessionState with the same state stores the remaining
\* messages and the snapshot without duplicating the earlier ones.
C33_FailedInsertKeepsEarlierMessages ==
    [][(ret'.op = "saveSessionState" /\ ret'.failed) =>
         \A state \in { st \in SaveFailStates(ret'.sid) :
                            st.specification.version = ret'.version } :
           \A f \in 2..(Len(NewMessages(DB, ret'.sid, state)) + 1) :
             SaveSessionState(ret'.sid, state, f) =>
               /\ ret'.status = "throw"
               /\ FailedInsertThenRetry(ret'.sid, state, f)]_vars

\* A state C33 is about: a save of version 1 was rejected at its second
\* insert; the first message is stored, the latest snapshot is still version
\* 0 and lastAccessedAt is older than the clock.
C33_Witness ==
    /\ ret.op = "saveSessionState"
    /\ ret.failed
    /\ ret.status = "throw"
    /\ ret.version = 1
    /\ Len(MessagesOf(DB, ret.sid)) = 1
    /\ CurrentVersion(DB, ret.sid) = 0
    /\ sessions[ret.sid].last_accessed_at < clock

(***************************************************************************)
(* More claims about specification versions.                               *)
(***************************************************************************)
\* The specification versions getSession can report for a session.
ReportedVersions(db, sid) ==
    { o.session.state.specification.version : o \in getSession(db, sid, clock, 0) }

\* C34: the specification version reported by getSession for a session
\* never decreases over any sequence of sequential Session Manager
\* operations, even when saveSessionState is called with a specification
\* version lower than the stored latest version.
C34_ReportedVersionNeverDecreases ==
    [][\A sid \in DOMAIN sessions :
         \A old \in ReportedVersions(DB, sid) :
           \A new \in ReportedVersions(DB', sid) : new >= old]_vars

\* A state C34 is about: a save with version 0 has written a snapshot after
\* the snapshot of version 1, and the session still reports version 1.
C34_Witness ==
    /\ ret.op = "saveSessionState"
    /\ ret.status = "ok"
    /\ ret.sid \in DOMAIN sessions
    /\ ret.version = 0
    /\ LET snaps == SnapshotsOf(DB, ret.sid)
       IN /\ Len(snaps) = 3
          /\ snaps[2].version = 1
          /\ snaps[3].version = 0
    /\ ReportedVersions(DB, ret.sid) = {1}

(***************************************************************************)
(* Claims about what a call leaves alone.                                  *)
(***************************************************************************)
\* The operations that are addressed to one session id.
AddressedOps ==
    {"saveSessionState", "generateMagicLink", "abandonSession",
     "syncOfflineMessages", "getSession"}

\* The messages, snapshots, token and status of session t are the same
\* before and after the step.
SessionUntouched(t) ==
    /\ MessagesOf(DB', t) = MessagesOf(DB, t)
    /\ SnapshotsOf(DB', t) = SnapshotsOf(DB, t)
    /\ sessions'[t].magic_link_token = sessions[t].magic_link_token
    /\ sessions'[t].status = sessions[t].status

\* C35: operations addressed to one session id (saveSessionState,
\* generateMagicLink, abandonSession, syncOfflineMessages, getSession) leave
\* the messages, snapshots, token and status of every other session
\* unchanged.
C35_OtherSessionsUntouched ==
    [][ret'.op \in AddressedOps =>
         \A t \in DOMAIN sessions \ {ret'.sid} : SessionUntouched(t)]_vars

\* A state C35 is about: a call has changed its own session, which is
\* abandoned and holds a token, a message and a version 1 snapshot, next to
\* an active session without any of these.
C35_Witness ==
    /\ ret.op \in AddressedOps
    /\ ret.sid \in DOMAIN sessions
    /\ sessions[ret.sid].status = "abandoned"
    /\ sessions[ret.sid].magic_link_token # NoToken
    /\ Len(MessagesOf(DB, ret.sid)) = 1
    /\ CurrentVersion(DB, ret.sid) = 1
    /\ \E t \in DOMAIN sessions \ {ret.sid} :
          /\ sessions[t].status = "active"
          /\ sessions[t].magic_link_token = NoToken
          /\ MessagesOf(DB, t) = << >>
          /\ CurrentVersion(DB, t) = 0

\* C36: generateMagicLink called with an id for which no session exists
\* changes no stored state and still returns a token;
\* restoreSessionFromMagicLink with that token fails with the invalid-token
\* condition.
C36_LinkForUnknownSessionIsInvalid ==
    [][(/\ ret'.op = "generateMagicLink"
        /\ ret'.sid \notin DOMAIN sessions
        /\ ~ret'.failed) =>
         /\ DB' = DB
         /\ ret'.status = "ok"
         /\ ret'.token # NoToken
         /\ \A o \in restoreSessionFromMagicLink(DB', ret'.token, clock, 0) :
               o.status = "throw" /\ o.error = InvalidToken]_vars

\* A state C36 is about: a token has been returned for an id without a
\* session, while a session holds an earlier token.
C36_Witness ==
    /\ ret.op = "generateMagicLink"
    /\ ret.sid \notin DOMAIN sessions
    /\ ret.status = "ok"
    /\ ret.token = 2
    /\ \E s \in DOMAIN sessions : sessions[s].magic_link_token = 1

(***************************************************************************)
(* More claims about preserveErrorState.                                   *)
(***************************************************************************)
\* C37: in preserveErrorState with a currentState supplied, the session
\* state is saved only after the error record has been written: if the
\* error-record write fails, saveSessionState is not called and none of
\* currentState's new messages are persisted by that call.  Any call that
\* writes to the session tables has written its error record.
C37_StateSavedAfterErrorRecord ==
    [][(ret'.op = "preserveErrorState" /\ ret'.version # -1) =>
         /\ \A error \in ErrorMessages, userInput \in UserInputs :
              \A currentState \in ErrorStates(ret'.sid) \ {<< >>} :
                PreserveErrorState(ret'.sid, error, userInput, currentState, 1) =>
                  /\ DB' = DB
                  /\ errors' = errors
                  /\ NewMessages(DB', ret'.sid, currentState[1]) =
                        NewMessages(DB, ret'.sid, currentState[1])
         /\ DB' # DB => errors' # errors]_vars

\* A state C37 is about: preserveErrorState was given a state, its error
\* record was rejected, and neither an error record nor a message of the
\* session is stored.
C37_Witness ==
    /\ ret.op = "preserveErrorState"
    /\ ret.sid \in DOMAIN sessions
    /\ ret.version = 1
    /\ ret.failed
    /\ ret.status = "ok"
    /\ errors = << >>
    /\ messages = << >>
    /\ CurrentVersion(DB, ret.sid) = 0

(***************************************************************************)
(* More claims about syncOfflineMessages.                                  *)
(***************************************************************************)
\* C38: syncOfflineMessages called when the session's offline queue is empty
\* returns without reading or writing the persistent store: messages,
\* snapshots and lastAccessedAt are unchanged, and it succeeds even if the
\* session id does not exist.  No store request is made, so none can fail.
C38_EmptySyncTouchesNothing ==
    [][(ret'.op = "syncOfflineMessages" /\ getOfflineMessages(ret'.sid) = << >>) =>
         /\ ret'.status = "ok"
         /\ ~ret'.failed
         /\ DB' = DB
         /\ localStorage' = localStorage
         /\ \A f \in FailPoints :
              \A o \in syncOfflineMessages(DB, localStorage, ret'.sid, clock, f) :
                o.statements = 0 /\ o.status = "ok" /\ o.db = DB]_vars

\* A state C38 is about: a sync with an empty queue has returned for a
\* session whose lastAccessedAt is older than the clock, while messages of
\* an earlier sync are stored.
C38_Witness ==
    /\ ret.op = "syncOfflineMessages"
    /\ ret.status = "ok"
    /\ ret.sid \in DOMAIN sessions
    /\ getOfflineMessages(ret.sid) = << >>
    /\ sessions[ret.sid].last_accessed_at < clock
    /\ messages # << >>

====
